---- MODULE Spec2Model ----
(***************************************************************************)
(* Model of alembic-autoscan's discovery engine: ModelScanner (scanner.py) *)
(* and ScanCache (cache.py).                                               *)
(*                                                                         *)
(* Text is modelled as a sequence of tokens: the string "**/tests/**" is   *)
(* <<"**", "/", "tests", "/", "**">>, the file name "user.py" is           *)
(* <<"user", ".py">>.  A path is a sequence of parts, each part a token    *)
(* sequence without "/".  String operations of the source (startswith,     *)
(* endswith, slicing, replace, fnmatch) act on the tokens.                 *)
(***************************************************************************)
EXTENDS Integers, Sequences, FiniteSets, TLC

(***************************************************************************)
(* Bounds                                                                  *)
(***************************************************************************)
\* number of changes other programs make to the tree and the store
MaxClock == 1

\* number of calls made to the scanner, or to the cache directly
MaxCalls == 2

\* number of directories above a file whose path is matched
MaxDepth == 3

(***************************************************************************)
(* Generic helpers on sequences                                            *)
(***************************************************************************)
Range(s) == {s[i] : i \in 1..Len(s)}

DropFirst(s, n) == SubSeq(s, n + 1, Len(s))

DropLast(s, n) == SubSeq(s, 1, Len(s) - n)

Last(s) == s[Len(s)]

RECURSIVE Reverse(_)
Reverse(s) == IF s = <<>> THEN <<>> ELSE Append(Reverse(Tail(s)), Head(s))

StartsWith(s, prefix) ==
    /\ Len(s) >= Len(prefix)
    /\ SubSeq(s, 1, Len(prefix)) = prefix

EndsWith(s, suffix) ==
    /\ Len(s) >= Len(suffix)
    /\ SubSeq(s, Len(s) - Len(suffix) + 1, Len(s)) = suffix

\* Python's "x in s" for strings: s holds x as a contiguous run of tokens
Contains(s, x) ==
    \E i \in 1..(Len(s) + 1) : i + Len(x) - 1 <= Len(s) /\ SubSeq(s, i, i + Len(x) - 1) = x

\* Python's str.replace(old, new): left to right, non-overlapping
RECURSIVE Replace(_, _, _)
Replace(s, old, new) ==
    IF s = <<>> THEN <<>>
    ELSE IF StartsWith(s, old) THEN new \o Replace(DropFirst(s, Len(old)), old, new)
    ELSE <<Head(s)>> \o Replace(Tail(s), old, new)

(***************************************************************************)
(* pathlib: PurePath.match as the scanner uses it (relative paths)         *)
(***************************************************************************)
\* fnmatch.fnmatchcase of one path part against one pattern part; "**"
\* inside one part is two stars, which match like one
RECURSIVE FnMatch(_, _)
FnMatch(name, pat) ==
    IF pat = <<>> THEN name = <<>>
    ELSE IF Head(pat) \in {"*", "**"}
         THEN \E k \in 0..Len(name) : FnMatch(DropFirst(name, k), Tail(pat))
         ELSE /\ name # <<>>
              /\ Head(name) = Head(pat)
              /\ FnMatch(Tail(name), Tail(pat))

\* the parts of a pattern string: split on "/", empty parts dropped
RECURSIVE PatternParts(_)
PatternParts(p) ==
    IF p = <<>> THEN <<>>
    ELSE IF Head(p) = "/" THEN PatternParts(Tail(p))
    ELSE LET n == IF \E i \in 1..Len(p) : p[i] = "/"
                  THEN (CHOOSE i \in 1..Len(p) : p[i] = "/" /\ \A j \in 1..(i - 1) : p[j] # "/") - 1
                  ELSE Len(p)
         IN  <<SubSeq(p, 1, n)>> \o PatternParts(DropFirst(p, n))

\* PurePath.match(pattern) for a relative path: a rooted pattern never
\* matches; otherwise the pattern is matched from the right, part by part
PathMatch(path, pattern) ==
    LET pat_parts == PatternParts(pattern)
        rp == Reverse(path)
        rq == Reverse(pat_parts)
    IN  /\ ~(pattern # <<>> /\ Head(pattern) = "/")
        /\ Len(pat_parts) <= Len(path)
        /\ \A i \in 1..Len(pat_parts) : FnMatch(rp[i], rq[i])

(***************************************************************************)
(* utils.py: parse_gitignore                                               *)
(***************************************************************************)
\* the patterns one stripped line of the ignore file contributes
GitignoreLine(line) ==
    IF line = <<>> \/ Head(line) = "#" THEN <<>>
    ELSE IF Head(line) = "!" THEN <<>>
    ELSE LET p1 == IF Last(line) = "/" THEN line \o <<"**">> ELSE line
         IN  IF Head(p1) = "/" THEN <<Tail(p1)>>
             ELSE IF ~Contains(p1, <<"/">>)
                  THEN IF \E i \in 1..Len(p1) : p1[i] \in {"*", "**"}
                       THEN <<(<<"**", "/">> \o p1)>>
                       ELSE <<(<<"**", "/">> \o p1 \o <<"/", "**">>), (<<"**", "/">> \o p1)>>
                  ELSE IF ~StartsWith(p1, <<"**", "/">>) /\ Head(p1) \notin {"*", "**"}
                       THEN <<(<<"**", "/">> \o p1)>>
                       ELSE <<p1>>

\* str.strip: white space at both ends removed
RECURSIVE Strip(_)
Strip(line) ==
    IF line = <<>> THEN <<>>
    ELSE IF Head(line) = " " THEN Strip(Tail(line))
    ELSE IF Last(line) = " " THEN Strip(DropLast(line, 1))
    ELSE line

RECURSIVE GitignoreLines(_)
GitignoreLines(lines) ==
    IF lines = <<>> THEN <<>>
    ELSE GitignoreLine(Strip(Head(lines))) \o GitignoreLines(Tail(lines))

\* gitignore is the ignore file at the scan root: its state ("absent",
\* "unreadable" or "present") and its lines
parse_gitignore(gitignore) ==
    IF gitignore.state # "present" THEN <<>> ELSE GitignoreLines(gitignore.lines)

(***************************************************************************)
(* scanner.py: pattern matching and module identifiers                     *)
(***************************************************************************)
DefaultExcludeNames ==
    << <<"venv">>, <<"env">>, <<".venv">>, <<"my_venv">>, <<"site-packages">>,
       <<"tests">>, <<"test">>, <<"migrations">>, <<"alembic">>, <<"__pycache__">>,
       <<".git">>, <<".idea">>, <<".vscode">>, <<"node_modules">>, <<"build">>,
       <<"dist">> >>

DEFAULT_EXCLUDE_PATTERNS ==
    [i \in 1..Len(DefaultExcludeNames) |-> <<"**", "/">> \o DefaultExcludeNames[i] \o <<"/", "**">>]

DefaultIncludePatterns == << <<"**", "/", "*", ".py">> >>

\* one pattern of _matches_pattern's loop: the pattern as entered, then
\* the variant forms tried for recursive patterns
MatchesOnePattern(path, pattern) ==
    \/ PathMatch(path, pattern)
    \/ /\ StartsWith(pattern, <<"**", "/">>)
       /\ PathMatch(path, DropFirst(pattern, 2))
    \/ /\ StartsWith(pattern, <<"**", "/">>)
       /\ EndsWith(pattern, <<"/", "**">>)
       /\ SubSeq(pattern, 3, Len(pattern) - 2) \in Range(path)
       /\ \/ PathMatch(path, DropFirst(pattern, 2))
          \/ PathMatch(path, DropFirst(pattern, 2) \o <<"/", "*">>)
    \/ /\ Contains(pattern, <<"/", "**", "/">>)
       /\ PathMatch(path, Replace(pattern, <<"/", "**", "/">>, <<"/">>))
    \/ /\ EndsWith(pattern, <<"/", "**">>)
       /\ PathMatch(path, pattern \o <<"/", "*">>)

\* path is relative to base_path
_matches_pattern(path, patterns) ==
    \E i \in 1..Len(patterns) : MatchesOnePattern(path, patterns[i])

\* _should_scan_file without its exclude test
_should_scan_file_include_only(path, include_patterns, exclude_patterns) ==
    _matches_pattern(path, include_patterns)

_should_scan_file(path, include_patterns, exclude_patterns) ==
    /\ _matches_pattern(path, include_patterns)
    /\ ~_matches_pattern(path, exclude_patterns)

NoModule == <<>>

RECURSIVE JoinDots(_)
JoinDots(parts) ==
    IF Len(parts) = 1 THEN Head(parts)
    ELSE Head(parts) \o <<".">> \o JoinDots(Tail(parts))

\* _get_module_path without the special case of __init__
_get_module_path_keeping_init(inside, rel_path) ==
    IF ~inside THEN NoModule
    ELSE LET name == Last(rel_path)
             stem == IF Len(name) > 1 /\ Last(name) = ".py" THEN DropLast(name, 1) ELSE name
         IN  JoinDots(DropLast(rel_path, 1) \o <<stem>>)

\* rel_path is the resolved file path relative to base_path; for a file
\* that resolves outside base_path (inside = FALSE) relative_to raises
_get_module_path(inside, rel_path) ==
    IF ~inside THEN NoModule
    ELSE LET name == Last(rel_path)
             stem == IF Len(name) > 1 /\ Last(name) = ".py" THEN DropLast(name, 1) ELSE name
             parts == DropLast(rel_path, 1) \o <<stem>>
             trimmed == IF Last(parts) = <<"__init__">> THEN DropLast(parts, 1) ELSE parts
         IN  IF trimmed = <<>> THEN NoModule ELSE JoinDots(trimmed)

(***************************************************************************)
(* Syntax trees (Python's ast module).  A node is a record with a type     *)
(* field; identifiers are token sequences, so that "AbstractBase" is       *)
(* <<"Abstract", "Base">> and ends with "Base".                            *)
(***************************************************************************)
Name(id) == [type |-> "Name", id |-> id]

Attribute(value, attr) == [type |-> "Attribute", value |-> value, attr |-> attr]

\* value is the Python constant: "True", "False", "None", "str" or "int"
Constant(value) == [type |-> "Constant", value |-> value]

Keyword(arg, value) == [type |-> "keyword", arg |-> arg, value |-> value]

Call(func, args, keywords) ==
    [type |-> "Call", func |-> func, args |-> args, keywords |-> keywords]

Subscript(value, slice) == [type |-> "Subscript", value |-> value, slice |-> slice]

Assign(targets, value) == [type |-> "Assign", targets |-> targets, value |-> value]

\* value is <<>> for an annotation without a value, else <<expr>>
AnnAssign(target, annotation, value) ==
    [type |-> "AnnAssign", target |-> target, annotation |-> annotation, value |-> value]

Expr(value) == [type |-> "Expr", value |-> value]

Pass == [type |-> "Pass"]

FunctionDef(name, body) == [type |-> "FunctionDef", name |-> name, body |-> body]

ClassDef(name, bases, keywords, decorator_list, body) ==
    [type |-> "ClassDef", name |-> name, bases |-> bases, keywords |-> keywords,
     decorator_list |-> decorator_list, body |-> body]

Module(body) == [type |-> "Module", body |-> body]

\* ast.iter_child_nodes: the child nodes in field order
Children(node) ==
    CASE node.type = "Module" -> node.body
      [] node.type = "ClassDef" ->
            node.bases \o node.keywords \o node.body \o node.decorator_list
      [] node.type = "FunctionDef" -> node.body
      [] node.type = "Assign" -> node.targets \o <<node.value>>
      [] node.type = "AnnAssign" -> <<node.target, node.annotation>> \o node.value
      [] node.type = "Expr" -> <<node.value>>
      [] node.type = "Call" -> <<node.func>> \o node.args \o node.keywords
      [] node.type = "keyword" -> <<node.value>>
      [] node.type = "Attribute" -> <<node.value>>
      [] node.type = "Subscript" -> <<node.value, node.slice>>
      [] OTHER -> <<>>

\* ast.walk: every node of the tree, breadth first
RECURSIVE WalkQueue(_)
WalkQueue(todo) ==
    IF todo = <<>> THEN <<>>
    ELSE <<Head(todo)>> \o WalkQueue(Tail(todo) \o Children(Head(todo)))

Walk(tree) == WalkQueue(<<tree>>)

IsTrueConstant(node) == node.type = "Constant" /\ node.value = "True"

TableKeywordTrue(keywords) ==
    \E i \in 1..Len(keywords) :
        keywords[i].arg = <<"table">> /\ IsTrueConstant(keywords[i].value)

_is_sqlmodel(node) ==
    /\ node.bases # <<>>
    /\ \/ \E i \in 1..Len(node.bases) :
             LET base == node.bases[i]
             IN  /\ base.type = "Call"
                 /\ base.func.type = "Name"
                 /\ base.func.id = <<"SQLModel">>
                 /\ TableKeywordTrue(base.keywords)
       \/ /\ \E i \in 1..Len(node.bases) :
                node.bases[i].type = "Name" /\ node.bases[i].id = <<"SQLModel">>
          /\ TableKeywordTrue(node.keywords)

AssignsName(item, names) ==
    /\ item.type = "Assign"
    /\ \E t \in 1..Len(item.targets) :
          item.targets[t].type = "Name" /\ item.targets[t].id \in names

_is_abstract_class(node) ==
    \E i \in 1..Len(node.body) :
        /\ AssignsName(node.body[i], {<<"__abstract__">>})
        /\ IsTrueConstant(node.body[i].value)

ColumnNames == {<<"Column">>, <<"mapped_column">>}

_is_column_call(node) ==
    /\ node.type = "Call"
    /\ \/ node.func.type = "Name" /\ node.func.id \in ColumnNames
       \/ node.func.type = "Attribute" /\ node.func.attr \in ColumnNames

DecoratorNames == {<<"as_declarative">>, <<"declarative_base">>}

BaseNames == {<<"Base">>, <<"Declarative", "Base">>, <<"Model">>}

_is_sqlalchemy_model(node) ==
    \/ _is_sqlmodel(node)
    \/ \E i \in 1..Len(node.decorator_list) :
          LET decorator == node.decorator_list[i]
          IN  \/ decorator.type = "Name" /\ decorator.id \in DecoratorNames
              \/ /\ decorator.type = "Call"
                 /\ \/ decorator.func.type = "Name" /\ decorator.func.id \in DecoratorNames
                    \/ decorator.func.type = "Attribute" /\ decorator.func.attr \in DecoratorNames
    \/ \E i \in 1..Len(node.bases) :
          LET base == node.bases[i]
          IN  \/ /\ base.type = "Name"
                 /\ (base.id \in BaseNames \/ EndsWith(base.id, <<"Base">>))
              \/ /\ base.type = "Attribute"
                 /\ \/ base.attr \in {<<"Model">>, <<"Declarative", "Base">>}
                    \/ EndsWith(base.attr, <<"Base">>)
              \/ /\ base.type = "Call"
                 /\ base.func.type = "Name"
                 /\ base.func.id = <<"declarative_base">>

_has_table_definition(node) ==
    \/ _is_sqlmodel(node)
    \/ \E i \in 1..Len(node.body) :
          LET item == node.body[i]
          IN  \/ AssignsName(item, {<<"__tablename__">>, <<"__table__">>})
              \/ /\ item.type = "AnnAssign"
                 /\ \/ /\ item.annotation.type = "Subscript"
                       /\ item.annotation.value.type = "Name"
                       /\ item.annotation.value.id = <<"Mapped">>
                    \/ item.value # <<>> /\ _is_column_call(item.value[1])
              \/ item.type = "Assign" /\ _is_column_call(item.value)

_has_tablename(node) ==
    \E i \in 1..Len(node.body) : AssignsName(node.body[i], {<<"__tablename__">>})

\* ConcreteClass counting __tablename__ only under a recognised base
ConcreteClassByBase(node) ==
    /\ ~_is_abstract_class(node)
    /\ \/ _is_sqlmodel(node)
       \/ _is_sqlalchemy_model(node) /\ _has_table_definition(node)

\* ConcreteClass without the test for __abstract__
ConcreteClassAbstractToo(node) ==
    \/ _has_tablename(node)
    \/ _is_sqlmodel(node)
    \/ _is_sqlalchemy_model(node) /\ _has_table_definition(node)

\* the class statement makes its file a model (the loop body of
\* scan_file_worker for a ClassDef node)
ConcreteClass(node) ==
    /\ ~_is_abstract_class(node)
    /\ \/ _has_tablename(node)
       \/ _is_sqlmodel(node)
       \/ _is_sqlalchemy_model(node) /\ _has_table_definition(node)

ImperativeCall(node) ==
    /\ node.type = "Call"
    /\ \/ node.func.type = "Attribute" /\ node.func.attr = <<"map_imperatively">>
       \/ node.func.type = "Name" /\ node.func.id = <<"map_imperatively">>

RECURSIVE AbstractNames(_)
AbstractNames(nodes) ==
    IF nodes = <<>> THEN <<>>
    ELSE (IF Head(nodes).type = "ClassDef" /\ _is_abstract_class(Head(nodes))
          THEN <<Head(nodes).name>> ELSE <<>>) \o AbstractNames(Tail(nodes))

(***************************************************************************)
(* Source texts.  A file holds one of the texts below; Parse gives what    *)
(* open/read/ast.parse make of it.                                         *)
(***************************************************************************)
TablenameAssign == Assign(<<Name(<<"__tablename__">>)>>, Constant("str"))

AbstractAssign == Assign(<<Name(<<"__abstract__">>)>>, Constant("True"))

\* class User(Base): __tablename__ = "users"
UserModelTree ==
    Module(<<ClassDef(<<"User">>, <<Name(<<"Base">>)>>, <<>>, <<>>, <<TablenameAssign>>)>>)

\* def helper(): pass
HelperTree == Module(<<FunctionDef(<<"helper">>, <<Pass>>)>>)

\* class AbstractBase(Base): __abstract__ = True; __tablename__ = "t"
AbstractOnlyTree ==
    Module(<<ClassDef(<<"Abstract", "Base">>, <<Name(<<"Base">>)>>, <<>>, <<>>,
                      <<AbstractAssign, TablenameAssign>>)>>)

\* class AbstractBase(Base): __abstract__ = True
\* class ConcreteModel(AbstractBase): __tablename__ = "concrete"
AbstractAndConcreteTree ==
    Module(<<ClassDef(<<"Abstract", "Base">>, <<Name(<<"Base">>)>>, <<>>, <<>>,
                      <<AbstractAssign>>),
             ClassDef(<<"Concrete", "Model">>, <<Name(<<"Abstract", "Base">>)>>, <<>>, <<>>,
                      <<TablenameAssign>>)>>)

Parse(text) ==
    CASE text = "user_model" -> [ok |-> TRUE, tree |-> UserModelTree]
      [] text = "abstract_and_concrete" -> [ok |-> TRUE, tree |-> AbstractAndConcreteTree]
      [] text = "helper" -> [ok |-> TRUE, tree |-> HelperTree]
      [] text = "abstract_only" -> [ok |-> TRUE, tree |-> AbstractOnlyTree]
      [] text = "syntax_error" -> [ok |-> FALSE]
      [] text = "undecodable" -> [ok |-> FALSE]

Texts == {"user_model", "helper", "syntax_error"}

\* scan_file_worker once the file is read: parsed is what ast.parse makes
\* of the content.  The result is the pair (is_model, abstract_classes) of
\* the worker's tuple.
scan_tree(parsed) ==
    IF ~parsed.ok
    THEN [is_model |-> FALSE, abstracts |-> <<>>]
    ELSE LET nodes == Walk(parsed.tree)
         IN  [is_model |-> \E i \in 1..Len(nodes) :
                              \/ nodes[i].type = "ClassDef" /\ ConcreteClass(nodes[i])
                              \/ ImperativeCall(nodes[i]),
              abstracts |-> AbstractNames(nodes)]

\* file is the file's state on disk: [exists, readable, mtime, text]
scan_file_worker(file) ==
    IF ~file.exists \/ ~file.readable
    THEN [is_model |-> FALSE, abstracts |-> <<>>]
    ELSE scan_tree(Parse(file.text))

(***************************************************************************)
(* cache.py: ScanCache.  The store file is                                 *)
(*   [kind |-> "absent"]      no file                                      *)
(*   [kind |-> "unreadable"]  the file cannot be opened for reading        *)
(*   [kind |-> "notjson"]     not a JSON document (also: truncated, empty) *)
(*   [kind |-> "scalar"]      a JSON number, boolean or null               *)
(*   [kind |-> "array"]       a JSON array or string                       *)
(*   [kind |-> "object", data |-> d]  d maps fingerprints to entries       *)
(* an entry is [kind |-> "notobject"] or [kind |-> "object", recs |-> r],  *)
(* r mapping paths to stored records; a stored record is                   *)
(*   [kind |-> "notobject"], [kind |-> "lacking"] (no mtime or is_model)   *)
(*   or [kind |-> "record", mtime, is_model, module_path].                 *)
(* In memory a record is the tuple <<mtime, is_model, module_path>>.       *)
(***************************************************************************)
\* the multiset of a pattern list: what sorting then joining keeps of it
SortedPatterns(patterns) ==
    [x \in Range(patterns) |-> Cardinality({i \in 1..Len(patterns) : patterns[i] = x})]

\* the hash is taken to be collision free: the key is the hashed data
_generate_cache_key(base_path, include_patterns, exclude_patterns) ==
    <<base_path, SortedPatterns(include_patterns), SortedPatterns(exclude_patterns)>>

ToJson(rec) ==
    [kind |-> "record", mtime |-> rec[1], is_model |-> rec[2], module_path |-> rec[3]]

FromJson(entry) == <<entry.mtime, entry.is_model, entry.module_path>>

Miss == [hit |-> FALSE]

\* ScanCache.load: [raised, value]; value is Miss (None) or a hit with
\* the mapping from paths to in-memory records
load(enabled, store, cache_key) ==
    IF ~enabled THEN [raised |-> FALSE, value |-> Miss]
    ELSE IF store.kind = "absent" THEN [raised |-> FALSE, value |-> Miss]
    ELSE IF store.kind = "unreadable" THEN [raised |-> TRUE, error |-> "OSError"]
    ELSE IF store.kind = "notjson" THEN [raised |-> FALSE, value |-> Miss]
    ELSE IF store.kind = "scalar" THEN [raised |-> TRUE, error |-> "TypeError"]
    ELSE IF store.kind = "array" THEN [raised |-> FALSE, value |-> Miss]
    ELSE IF cache_key \notin DOMAIN store.data THEN [raised |-> FALSE, value |-> Miss]
    ELSE LET cache_data == store.data[cache_key]
         IN  IF cache_data.kind # "object" THEN [raised |-> TRUE, error |-> "TypeError"]
             ELSE IF \E f \in DOMAIN cache_data.recs : cache_data.recs[f].kind = "notobject"
                  THEN [raised |-> TRUE, error |-> "TypeError"]
             ELSE IF \E f \in DOMAIN cache_data.recs : cache_data.recs[f].kind = "lacking"
                  THEN [raised |-> FALSE, value |-> Miss]
             ELSE [raised |-> FALSE,
                   value |-> [hit |-> TRUE,
                              recs |-> [f \in DOMAIN cache_data.recs |->
                                           FromJson(cache_data.recs[f])]]]

\* d with key k bound to v
Bind(d, k, v) == [x \in (DOMAIN d) \cup {k} |-> IF x = k THEN v ELSE d[x]]

EmptyMap == [x \in {} |-> <<>>]

\* save without its "except OSError": an I/O failure reaches the caller
save_propagating(enabled, store, cache_key, file_data, fault) ==
    IF ~enabled THEN [raised |-> FALSE, store |-> store, wrote |-> FALSE, failed |-> FALSE]
    ELSE IF store.kind = "unreadable" \/ fault = "open"
         THEN [raised |-> TRUE, store |-> store, wrote |-> FALSE, failed |-> TRUE]
    ELSE IF store.kind \in {"notjson", "scalar", "array"}
         THEN [raised |-> TRUE, store |-> store, wrote |-> FALSE, failed |-> FALSE]
    ELSE IF fault = "write"
         THEN [raised |-> TRUE, store |-> [kind |-> "notjson"], wrote |-> FALSE, failed |-> TRUE]
    ELSE LET all_caches == IF store.kind = "absent" THEN [x \in {} |-> <<>>] ELSE store.data
             cache_entry == [kind |-> "object",
                             recs |-> [f \in DOMAIN file_data |->
                                          [kind |-> "record", mtime |-> file_data[f][1],
                                           is_model |-> file_data[f][2],
                                           module_path |-> file_data[f][3]]]]
         IN  [raised |-> FALSE,
              store |-> [kind |-> "object",
                         data |-> [x \in (DOMAIN all_caches) \cup {cache_key} |->
                                      IF x = cache_key THEN cache_entry ELSE all_caches[x]]],
              wrote |-> TRUE, failed |-> FALSE]

\* save adding its records to those the entry of cache_key already holds
save_unioning(enabled, store, cache_key, file_data, fault) ==
    IF ~enabled THEN [raised |-> FALSE, store |-> store, wrote |-> FALSE, failed |-> FALSE]
    ELSE IF store.kind = "unreadable"
         THEN [raised |-> FALSE, store |-> store, wrote |-> FALSE, failed |-> TRUE]
    ELSE IF store.kind \in {"notjson", "scalar", "array"}
         THEN [raised |-> TRUE, store |-> store, wrote |-> FALSE, failed |-> FALSE]
    ELSE LET all_caches == IF store.kind = "absent" THEN EmptyMap ELSE store.data
             held == IF cache_key \in DOMAIN all_caches /\ all_caches[cache_key].kind = "object"
                     THEN all_caches[cache_key].recs ELSE EmptyMap
             cache_entry == [kind |-> "object",
                             recs |-> [f \in DOMAIN held \cup DOMAIN file_data |->
                                          IF f \in DOMAIN file_data THEN ToJson(file_data[f])
                                          ELSE held[f]]]
         IN  IF fault = "open"
             THEN [raised |-> FALSE, store |-> store, wrote |-> FALSE, failed |-> TRUE]
             ELSE IF fault = "write"
             THEN [raised |-> FALSE, store |-> [kind |-> "notjson"],
                   wrote |-> FALSE, failed |-> TRUE]
             ELSE [raised |-> FALSE,
                   store |-> [kind |-> "object",
                              data |-> Bind(all_caches, cache_key, cache_entry)],
                   wrote |-> TRUE, failed |-> FALSE]

\* save without its test of the enabled flag
save_ignoring_enabled(enabled, store, cache_key, file_data, fault) ==
    IF store.kind = "unreadable"
    THEN [raised |-> FALSE, store |-> store, wrote |-> FALSE, failed |-> TRUE]
    ELSE IF store.kind \in {"notjson", "scalar", "array"}
         THEN [raised |-> TRUE, store |-> store, wrote |-> FALSE, failed |-> FALSE]
    ELSE LET all_caches == IF store.kind = "absent" THEN EmptyMap ELSE store.data
             cache_entry == [kind |-> "object",
                             recs |-> [f \in DOMAIN file_data |-> ToJson(file_data[f])]]
         IN  IF fault = "open"
             THEN [raised |-> FALSE, store |-> store, wrote |-> FALSE, failed |-> TRUE]
             ELSE IF fault = "write"
             THEN [raised |-> FALSE, store |-> [kind |-> "notjson"],
                   wrote |-> FALSE, failed |-> TRUE]
             ELSE [raised |-> FALSE,
                   store |-> [kind |-> "object",
                              data |-> Bind(all_caches, cache_key, cache_entry)],
                   wrote |-> TRUE, failed |-> FALSE]

\* ScanCache.save: [raised, store, wrote, failed] (failed: an OSError was
\* caught and logged); fault is the I/O failure met when the
\* store is opened for writing ("open": the open fails, the file is left
\* as it was; "write": the file has been truncated and the write fails)
\* or "none"
save(enabled, store, cache_key, file_data, fault) ==
    IF ~enabled THEN [raised |-> FALSE, store |-> store, wrote |-> FALSE, failed |-> FALSE]
    ELSE IF store.kind = "unreadable"
         THEN [raised |-> FALSE, store |-> store, wrote |-> FALSE, failed |-> TRUE]
    ELSE IF store.kind = "notjson"
         THEN [raised |-> TRUE, store |-> store, wrote |-> FALSE, failed |-> FALSE]
    ELSE IF store.kind \in {"scalar", "array"}
         THEN [raised |-> TRUE, store |-> store, wrote |-> FALSE, failed |-> FALSE]
    ELSE LET all_caches == IF store.kind = "absent" THEN EmptyMap ELSE store.data
             cache_entry == [kind |-> "object",
                             recs |-> [f \in DOMAIN file_data |-> ToJson(file_data[f])]]
         IN  CASE fault = "open" ->
                     [raised |-> FALSE, store |-> store, wrote |-> FALSE, failed |-> TRUE]
               [] fault = "write" ->
                     [raised |-> FALSE, store |-> [kind |-> "notjson"],
                      wrote |-> FALSE, failed |-> TRUE]
               [] OTHER ->
                     [raised |-> FALSE,
                      store |-> [kind |-> "object",
                                 data |-> Bind(all_caches, cache_key, cache_entry)],
                      wrote |-> TRUE, failed |-> FALSE]

\* is_file_modified taking a file that cannot be stat'd for unmodified
is_file_modified_unless_missing(file, cached_mtime) ==
    IF ~file.exists THEN FALSE ELSE file.mtime # cached_mtime

\* ScanCache.is_file_modified
is_file_modified(file, cached_mtime) ==
    IF ~file.exists THEN TRUE ELSE file.mtime # cached_mtime

(***************************************************************************)
(* The scanned tree and the scan configurations                            *)
(***************************************************************************)
UserPy == << <<"app">>, <<"models">>, <<"user", ".py">> >>

OldPy == << <<"legacy">>, <<"old", ".py">> >>

TestsPy == << <<"tests">>, <<"test_models", ".py">> >>

RootInitPy == << <<"__init__", ".py">> >>

\* a symbolic link under base_path to a file that lies outside it
LinkPy == << <<"link", ".py">> >>

\* the *.py files the tree may hold, relative to base_path
Files == {UserPy, OldPy}

BasePath == <<"/", "proj">>

\* the arguments a scanner is constructed with:
\* include_patterns, exclude_patterns (<<>> stands for None)
UserConfigs ==
    { [include_patterns |-> <<>>, exclude_patterns |-> <<>>],
      [include_patterns |-> <<>>,
       exclude_patterns |-> << <<"**", "/", "legacy", "/", "**">> >>] }

\* tokens of module identifiers in code point order
TokenOrder ==
    <<".", "__init__", "app", "legacy", "link", "models", "old", "test_models", "tests", "user">>

TokenRank(t) == CHOOSE i \in 1..Len(TokenOrder) : TokenOrder[i] = t

\* a < b for strings, as Python compares them
RECURSIVE StrLess(_, _)
StrLess(a, b) ==
    IF b = <<>> THEN FALSE
    ELSE IF a = <<>> THEN TRUE
    ELSE IF Head(a) = Head(b) THEN StrLess(Tail(a), Tail(b))
    ELSE TokenRank(Head(a)) < TokenRank(Head(b))

\* sorted(set)
RECURSIVE Sorted(_)
Sorted(set) ==
    IF set = {} THEN <<>>
    ELSE LET least == CHOOSE x \in set : \A y \in set \ {x} : StrLess(x, y)
         IN  <<least>> \o Sorted(set \ {least})

(***************************************************************************)
(* State                                                                   *)
(***************************************************************************)
VARIABLES
    base,       \* what base_path is on disk: "dir", "missing" or "notdir"
    fs,         \* Files -> [exists, readable, mtime, text]
    gitignore,  \* the ignore file at the root: [state, lines]
    store,      \* the cache store file .alembic-autoscan.cache
    clock,      \* the time of the last change made to the tree
    scanner,    \* the ModelScanner instance in use
    last,       \* the discover() call just made: inputs and outcome
    prior,      \* the most recent discover() call, while nothing but
                \* that call has changed the tree or the store since
    calls       \* number of discover() calls made

vars == <<base, fs, gitignore, store, clock, scanner, last, prior, calls>>

\* ModelScanner.__init__ with user excludes taking the place of the baseline
NewInstanceNoBaseline(cfg, cache_enabled, parallel_enabled, parallel_threshold, strict_mode, ignore) ==
    [include_patterns |-> IF cfg.include_patterns = <<>> THEN DefaultIncludePatterns
                          ELSE cfg.include_patterns,
     exclude_patterns |-> (IF cfg.exclude_patterns = <<>> THEN DEFAULT_EXCLUDE_PATTERNS
                           ELSE cfg.exclude_patterns) \o parse_gitignore(ignore),
     cache_enabled |-> cache_enabled,
     parallel_enabled |-> parallel_enabled,
     parallel_threshold |-> parallel_threshold,
     strict_mode |-> strict_mode,
     discovered_modules |-> {},
     abstract_classes |-> {}]

\* ModelScanner.__init__
NewInstance(cfg, cache_enabled, parallel_enabled, parallel_threshold, strict_mode, ignore) ==
    [include_patterns |-> IF cfg.include_patterns = <<>> THEN DefaultIncludePatterns
                          ELSE cfg.include_patterns,
     exclude_patterns |-> cfg.exclude_patterns \o DEFAULT_EXCLUDE_PATTERNS
                              \o parse_gitignore(ignore),
     cache_enabled |-> cache_enabled,
     parallel_enabled |-> parallel_enabled,
     parallel_threshold |-> parallel_threshold,
     strict_mode |-> strict_mode,
     discovered_modules |-> {},
     abstract_classes |-> {}]

NoCall == [called |-> FALSE, op |-> "none"]

Init ==
    /\ base = "dir"
    /\ fs = [f \in Files |->
                [exists |-> TRUE, readable |-> TRUE, mtime |-> 0,
                 text |-> IF f = UserPy THEN "user_model" ELSE "helper"]]
    /\ gitignore = [state |-> "absent", lines |-> <<>>]
    /\ store = [kind |-> "absent"]
    /\ clock = 0
    /\ scanner = NewInstance([include_patterns |-> <<>>, exclude_patterns |-> <<>>],
                              TRUE, "None", 50, FALSE, gitignore)
    /\ last = NoCall
    /\ prior = NoCall
    /\ calls = 0

(***************************************************************************)
(* ModelScanner.discover                                                   *)
(***************************************************************************)
\* base_path.rglob("*.py")
Enumerate == IF base = "dir" THEN {f \in DOMAIN fs : fs[f].exists} ELSE {}

\* the order in which rglob yields the files
RECURSIVE EnumerationOrder(_)
EnumerationOrder(files) ==
    IF files = {} THEN <<>>
    ELSE LET f == CHOOSE g \in files : TRUE
         IN  <<f>> \o EnumerationOrder(files \ {f})

\* file_path.resolve() stays under base_path, unless the file is the link
Inside(f) == f # LinkPy

\* Step 3 for one cached, unmodified file: the record put in new_cache_data
ReplayRecord(cached) ==
    IF cached[2] THEN <<cached[1], TRUE, cached[3]>> ELSE <<cached[1], FALSE, NoModule>>

\* Step 4 for one classified file: the record put in new_cache_data
ScanRecord(mtime, is_model, module_path) ==
    IF is_model /\ module_path # NoModule
    THEN <<mtime, TRUE, module_path>>
    ELSE <<mtime, FALSE, module_path>>

\* the pool used whenever the threshold is met or parallel mode is forced
ShouldParallelByThreshold(sc, count) ==
    count >= sc.parallel_threshold \/ sc.parallel_enabled = "True"

\* Step 4: the worker pool is to be used for count files
ShouldParallel(sc, count) ==
    LET should_parallel == IF sc.parallel_enabled = "None"
                           THEN count >= sc.parallel_threshold
                           ELSE sc.parallel_enabled = "True"
    IN  should_parallel /\ count > 1

\* the worker pool is used ("parallel"), was tried and failed ("fallback"),
\* or the files are classified one after another ("serial")
DispatchMode(sc, count, pool_fails) ==
    IF ShouldParallel(sc, count)
    THEN (IF pool_fails THEN "fallback" ELSE "parallel")
    ELSE "serial"

\* the tuple (file_path, is_model, abstract_classes) a worker returns
WorkerTuple(f, disk) ==
    <<f, scan_file_worker(disk[f]).is_model, scan_file_worker(disk[f]).abstracts>>

\* [scan_file_worker(f) for f in files_to_scan]
SerialResults(files_to_scan, disk) ==
    [i \in 1..Len(files_to_scan) |-> WorkerTuple(files_to_scan[i], disk)]

\* the pool's results, cut down to the worker that finishes first
PoolResultsFirstCompleted(files_to_scan, disk, completion) ==
    <<WorkerTuple(files_to_scan[completion[1]], disk)>>

\* list(executor.map(scan_file_worker, files_to_scan)): task i is the i-th
\* file, completion[k] is the task that finishes k-th, and map yields the
\* results in the order of the tasks
PoolResults(files_to_scan, disk, completion) ==
    LET finished == [k \in 1..Len(completion) |->
                        [task |-> completion[k],
                         result |-> WorkerTuple(files_to_scan[completion[k]], disk)]]
    IN  [i \in 1..Len(files_to_scan) |->
            finished[CHOOSE k \in 1..Len(finished) : finished[k].task = i].result]

\* Step 4 with the exception of the pool left to propagate
DispatchWithoutFallback(sc, files_to_scan, disk, pool_fails, completion) ==
    IF ShouldParallel(sc, Len(files_to_scan))
    THEN IF pool_fails
         THEN [raised |-> TRUE, results |-> <<>>]
         ELSE [raised |-> FALSE, results |-> PoolResults(files_to_scan, disk, completion)]
    ELSE [raised |-> FALSE, results |-> SerialResults(files_to_scan, disk)]

\* Step 4: the results list
Dispatch(sc, files_to_scan, disk, pool_fails, completion) ==
    IF ShouldParallel(sc, Len(files_to_scan))
    THEN IF pool_fails
         THEN [raised |-> FALSE, results |-> SerialResults(files_to_scan, disk)]
         ELSE [raised |-> FALSE, results |-> PoolResults(files_to_scan, disk, completion)]
    ELSE [raised |-> FALSE, results |-> SerialResults(files_to_scan, disk)]

\* what importlib.import_module(module) can do: return, or raise
\* ImportError or another exception derived from Exception
ImportOutcomes == {"ok", "ImportError", "Exception"}

\* verify_imports catching ImportError only, as import_models does
RECURSIVE verify_imports_import_error_only(_, _)
verify_imports_import_error_only(modules, import_module) ==
    IF modules = <<>> THEN [raised |-> FALSE, attempted |-> <<>>, verified |-> <<>>]
    ELSE IF import_module[Head(modules)] = "Exception"
    THEN [raised |-> TRUE, attempted |-> <<Head(modules)>>, verified |-> <<>>]
    ELSE LET rest == verify_imports_import_error_only(Tail(modules), import_module)
         IN  [raised |-> rest.raised,
              attempted |-> <<Head(modules)>> \o rest.attempted,
              verified |-> (IF import_module[Head(modules)] = "ok"
                            THEN <<Head(modules)>> ELSE <<>>) \o rest.verified]

\* import_module maps each module to the outcome of importing it
RECURSIVE verify_imports(_, _)
verify_imports(modules, import_module) ==
    IF modules = <<>> THEN [raised |-> FALSE, attempted |-> <<>>, verified |-> <<>>]
    ELSE LET rest == verify_imports(Tail(modules), import_module)
         IN  [raised |-> rest.raised,
              attempted |-> <<Head(modules)>> \o rest.attempted,
              verified |-> (IF import_module[Head(modules)] = "ok"
                            THEN <<Head(modules)>> ELSE <<>>) \o rest.verified]

\* ModelScanner.import_models(modules): the number of modules imported
RECURSIVE import_models(_, _)
import_models(modules, import_module) ==
    IF modules = <<>> THEN [raised |-> FALSE, attempted |-> <<>>, imported_count |-> 0]
    ELSE IF import_module[Head(modules)] = "Exception"
    THEN [raised |-> TRUE, attempted |-> <<Head(modules)>>, imported_count |-> 0]
    ELSE LET rest == import_models(Tail(modules), import_module)
         IN  [raised |-> rest.raised,
              attempted |-> <<Head(modules)>> \o rest.attempted,
              imported_count |-> (IF import_module[Head(modules)] = "ok" THEN 1 ELSE 0)
                                     + rest.imported_count]

\* the I/O failures save() can meet once it gets to writing the store
WriteFaults(enabled, st) ==
    IF enabled /\ st.kind \in {"absent", "object"} THEN {"none", "open", "write"}
    ELSE {"none"}

\* the record of a discover() call that raised before collecting anything
RaisedCall(sc, cache_key, files_to_check, cache_data, vanish) ==
    [called |-> TRUE,
     op |-> "discover",
     cache_key |-> cache_key,
     cache_enabled |-> sc.cache_enabled,
     base |-> base,
     store_kind |-> store.kind,
     repeats |-> /\ prior.called
                 /\ vanish = {}
                 /\ prior.cache_key = cache_key
                 /\ prior.cache_enabled = sc.cache_enabled,
     before |-> IF prior.called /\ prior.outcome = "returned" THEN <<prior.result>> ELSE <<>>,
     eligible |-> files_to_check,
     vanished |-> vanish,
     stored |-> [f \in files_to_check \cap DOMAIN cache_data |-> cache_data[f]],
     dropped |-> DOMAIN cache_data \ files_to_check,
     store_before |-> IF sc.cache_enabled THEN <<>> ELSE <<store>>,
     mode |-> "serial",
     pool |-> FALSE,
     completion |-> <<>>,
     results |-> <<>>,
     scanned |-> {},
     records |-> EmptyMap,
     imports |-> EmptyMap,
     attempted |-> <<>>,
     write_failed |-> FALSE,
     outcome |-> "raised",
     error |-> "load",
     result |-> <<>>]

\* what prior keeps of a call
Summary(call) ==
    [called |-> TRUE, op |-> "discover",
     cache_key |-> call.cache_key, cache_enabled |-> call.cache_enabled,
     outcome |-> call.outcome, result |-> call.result]

\* One discover() call on the current scanner.  Its inputs from outside:
\*   vanish:     the eligible file (if any) removed by another program
\*               right after the enumeration of Step 1 (one more change
\*               made to the tree)
\*   fault:      the I/O failure save() meets when it writes the store
\*   pool_fails: the worker pool cannot be used
\*   completion: the order in which the workers of the pool finish
\*   processed:  when collecting results raises, the files collected before
\*   import_module: what importing each discovered module does
discover ==
    \E files_to_check \in
          {{f \in Enumerate :
              _should_scan_file(f, scanner.include_patterns, scanner.exclude_patterns)}},
       cache_key \in
          {_generate_cache_key(BasePath, scanner.include_patterns, scanner.exclude_patterns)} :
    \E loaded \in {load(scanner.cache_enabled, store, cache_key)} :
    \E vanish \in {{}} \cup (IF clock < MaxClock THEN {{f} : f \in files_to_check} ELSE {}),
       fault \in WriteFaults(scanner.cache_enabled, store) :
    LET sc == scanner
        cache_data == IF ~loaded.raised /\ loaded.value.hit THEN loaded.value.recs ELSE EmptyMap
        module_of == [f \in files_to_check |-> _get_module_path(Inside(f), f)]
    IN
    \E disk \in {[f \in DOMAIN fs |->
                     IF f \in vanish THEN [fs[f] EXCEPT !.exists = FALSE] ELSE fs[f]]} :
    \E served \in {{f \in files_to_check :
                       /\ f \in DOMAIN cache_data
                       /\ ~is_file_modified(disk[f], cache_data[f][1])}} :
    \E files_to_scan \in {EnumerationOrder(files_to_check \ served)} :
    \E pool_fails \in IF ShouldParallel(scanner, Len(files_to_scan))
                       THEN BOOLEAN ELSE {FALSE} :
    \E completion \in IF ShouldParallel(scanner, Len(files_to_scan)) /\ ~pool_fails
                       THEN Permutations(1..Len(files_to_scan)) ELSE {<<>>} :
    \E dispatched \in {Dispatch(scanner, files_to_scan, disk, pool_fails, completion)} :
    \E results \in {[f \in {dispatched.results[i][1] : i \in 1..Len(dispatched.results)} |->
                       LET i == CHOOSE k \in 1..Len(dispatched.results) :
                                    dispatched.results[k][1] = f
                       IN  [is_model |-> dispatched.results[i][2],
                            abstracts |-> dispatched.results[i][3]]]} :
    LET mode == DispatchMode(sc, Len(files_to_scan), pool_fails)
        stat_fails == {f \in DOMAIN results : ~disk[f].exists}
        call == [RaisedCall(sc, cache_key, files_to_check, cache_data, vanish)
                     EXCEPT !.mode = mode,
                            !.pool = ShouldParallel(sc, Len(files_to_scan)),
                            !.completion = completion,
                            !.results = [i \in 1..Len(dispatched.results) |->
                                            dispatched.results[i][1]],
                            !.scanned = Range(files_to_scan)]
    IN
    \E processed \in SUBSET (DOMAIN results \ stat_fails) :
    LET collected == IF stat_fails = {} THEN DOMAIN results ELSE processed
        new_cache_data ==
            [f \in served \cup collected |->
                IF f \in served THEN ReplayRecord(cache_data[f])
                ELSE ScanRecord(disk[f].mtime, results[f].is_model, module_of[f])]
        from_cache ==
            {cache_data[f][3] : f \in {g \in served : cache_data[g][2] /\ cache_data[g][3] # NoModule}}
        discovered ==
            from_cache
            \cup {module_of[f] : f \in {g \in collected : results[g].is_model /\ module_of[g] # NoModule}}
        abstracts == UNION {Range(results[f].abstracts) : f \in collected}
        saved == save(sc.cache_enabled, store, cache_key, new_cache_data,
                      IF base = "dir" THEN fault ELSE "open")
        imports_run == sc.strict_mode /\ ~loaded.raised /\ ~dispatched.raised
                          /\ stat_fails = {} /\ ~saved.raised
    IN
    \E import_module \in IF imports_run THEN [discovered -> ImportOutcomes] ELSE {EmptyMap} :
    LET verified == verify_imports(Sorted(discovered), import_module)
    IN  /\ stat_fails = {} => processed = {}
        /\ fs' = disk
        /\ clock' = IF vanish = {} THEN clock ELSE clock + 1
        /\ UNCHANGED <<base, gitignore>>
        /\ IF loaded.raised
           THEN /\ scanner' = [sc EXCEPT !.discovered_modules = {}, !.abstract_classes = {}]
                /\ store' = store
                /\ last' = RaisedCall(sc, cache_key, files_to_check, cache_data, vanish)
           ELSE IF dispatched.raised
           THEN /\ scanner' = [sc EXCEPT !.discovered_modules = from_cache,
                                         !.abstract_classes = {}]
                /\ store' = store
                /\ last' = [call EXCEPT !.error = "pool"]
           ELSE IF stat_fails # {}
           THEN /\ scanner' = [sc EXCEPT !.discovered_modules = discovered,
                                         !.abstract_classes = abstracts]
                /\ store' = store
                /\ last' = [call EXCEPT !.error = "stat"]
           ELSE /\ scanner' = [sc EXCEPT !.discovered_modules = discovered,
                                         !.abstract_classes = abstracts]
                /\ store' = saved.store
                /\ last' = [call EXCEPT
                              !.records = new_cache_data,
                              !.write_failed = saved.failed,
                              !.imports = import_module,
                              !.attempted = IF imports_run THEN verified.attempted ELSE <<>>,
                              !.outcome = IF saved.raised \/ (imports_run /\ verified.raised)
                                          THEN "raised" ELSE "returned",
                              !.error = IF saved.raised THEN "save"
                                        ELSE IF imports_run /\ verified.raised THEN "import"
                                        ELSE "none",
                              !.result = IF saved.raised \/ (imports_run /\ verified.raised)
                                         THEN <<>> ELSE Sorted(discovered)]
        /\ prior' = IF vanish = {} THEN Summary(last') ELSE NoCall

\* a caller runs discover() on the scanner
Discover ==
    /\ calls < MaxCalls
    /\ calls' = calls + 1
    /\ discover

\* a new ModelScanner is constructed on base_path
NewScanner(cfg, cache_enabled) ==
    /\ scanner' = NewInstance(cfg, cache_enabled, "None", 50, FALSE, gitignore)
    /\ scanner' # scanner
    /\ last' = NoCall
    /\ UNCHANGED <<base, fs, gitignore, store, clock, prior, calls>>

\* ScanCache.invalidate
invalidate ==
    /\ store.kind # "absent"
    /\ store' = [kind |-> "absent"]
    /\ last' = NoCall
    /\ prior' = NoCall
    /\ UNCHANGED <<base, fs, gitignore, clock, scanner, calls>>

(***************************************************************************)
(* The environment: other programs changing the tree and the store         *)
(***************************************************************************)
Tick ==
    /\ clock < MaxClock
    /\ clock' = clock + 1
    /\ last' = NoCall
    /\ prior' = NoCall

\* a file is created or rewritten; its modification time moves
WriteFile(f, text) ==
    /\ base = "dir"
    /\ Tick
    /\ fs' = [fs EXCEPT ![f] = [exists |-> TRUE, readable |-> TRUE, mtime |-> clock', text |-> text]]
    /\ UNCHANGED <<base, gitignore, store, scanner, calls>>

\* a file's content is replaced and its modification time is put back
EditKeepingMtime(f, text) ==
    /\ base = "dir"
    /\ fs[f].exists
    /\ fs[f].text # text
    /\ Tick
    /\ fs' = [fs EXCEPT ![f].text = text]
    /\ UNCHANGED <<base, gitignore, store, scanner, calls>>

DeleteFile(f) ==
    /\ fs[f].exists
    /\ Tick
    /\ fs' = [fs EXCEPT ![f].exists = FALSE]
    /\ UNCHANGED <<base, gitignore, store, scanner, calls>>

\* the file's read permission is taken away
ProtectFile(f) ==
    /\ fs[f].exists
    /\ fs[f].readable
    /\ Tick
    /\ fs' = [fs EXCEPT ![f].readable = FALSE]
    /\ UNCHANGED <<base, gitignore, store, scanner, calls>>

\* the store file is replaced by something that is not a store
CorruptStore(kind) ==
    /\ base = "dir"
    /\ store.kind # kind
    /\ Tick
    /\ store' = [kind |-> kind]
    /\ UNCHANGED <<base, fs, gitignore, scanner, calls>>

\* one fingerprint's entry of the store is replaced by a non-object
CorruptEntry(key) ==
    /\ store.kind = "object"
    /\ key \in DOMAIN store.data
    /\ store.data[key].kind = "object"
    /\ Tick
    /\ store' = [store EXCEPT !.data[key] = [kind |-> "notobject"]]
    /\ UNCHANGED <<base, fs, gitignore, scanner, calls>>

\* one record of the store is replaced by a malformed one
CorruptRecord(key, f, kind) ==
    /\ store.kind = "object"
    /\ key \in DOMAIN store.data
    /\ store.data[key].kind = "object"
    /\ f \in DOMAIN store.data[key].recs
    /\ \A g \in DOMAIN store.data[key].recs : store.data[key].recs[g].kind = "record"
    /\ Tick
    /\ store' = [store EXCEPT !.data[key].recs[f] = [kind |-> kind]]
    /\ UNCHANGED <<base, fs, gitignore, scanner, calls>>

\* base_path is removed, or replaced by a regular file
RemoveBase(kind) ==
    /\ base = "dir"
    /\ Tick
    /\ base' = kind
    /\ fs' = [f \in Files |-> [fs[f] EXCEPT !.exists = FALSE]]
    /\ store' = [kind |-> "absent"]
    /\ UNCHANGED <<gitignore, scanner, calls>>

StoreKeys == IF store.kind = "object" THEN DOMAIN store.data ELSE {}

Next ==
    \/ Discover
    \/ \E cfg \in UserConfigs, cache_enabled \in BOOLEAN : NewScanner(cfg, cache_enabled)
    \/ invalidate
    \/ \E f \in Files, text \in Texts : WriteFile(f, text)
    \/ \E f \in Files, text \in Texts : EditKeepingMtime(f, text)
    \/ \E f \in Files : DeleteFile(f)
    \/ \E f \in Files : ProtectFile(f)
    \/ \E kind \in {"unreadable", "notjson", "scalar"} : CorruptStore(kind)
    \/ \E kind \in {"missing", "notdir"} : RemoveBase(kind)

Spec == Init /\ [][Next]_vars

(***************************************************************************)
(* ScanCache used directly: save, load and invalidate on one store file    *)
(***************************************************************************)
\* the records a caller may save for file f: a model, or a non-model with
\* a null module_path
RecordsFor(f) ==
    {<<0, TRUE, _get_module_path(TRUE, f)>>, <<1, FALSE, NoModule>>}

\* the record sets a caller may save
RecordSets ==
    UNION {[paths -> UNION {RecordsFor(f) : f \in paths}] : paths \in SUBSET Files}

CacheKeyOf(cfg) ==
    LET sc == NewInstance(cfg, TRUE, "None", 50, FALSE, gitignore)
    IN  _generate_cache_key(BasePath, sc.include_patterns, sc.exclude_patterns)

\* ScanCache(base_path, enabled).save(...) for configuration cfg
CacheSave(cfg, enabled, file_data, fault) ==
    /\ calls < MaxCalls
    /\ calls' = calls + 1
    /\ \E cache_key \in {CacheKeyOf(cfg)} :
       \E saved \in {save(enabled, store, cache_key, file_data, fault)} :
          /\ store' = saved.store
          /\ last' = [called |-> FALSE, op |-> "save", cache_key |-> cache_key,
                      enabled |-> enabled, file_data |-> file_data, before |-> store,
                      raised |-> saved.raised, failed |-> saved.failed]
    /\ UNCHANGED <<base, fs, gitignore, clock, scanner, prior>>

\* ScanCache(base_path, enabled).load(...) for configuration cfg
CacheLoad(cfg, enabled) ==
    /\ calls < MaxCalls
    /\ calls' = calls + 1
    /\ \E cache_key \in {CacheKeyOf(cfg)} :
       \E loaded \in {load(enabled, store, cache_key)} :
          last' = [called |-> FALSE, op |-> "load", cache_key |-> cache_key,
                   enabled |-> enabled, store_kind |-> store.kind,
                   raised |-> loaded.raised,
                   value |-> IF loaded.raised THEN Miss ELSE loaded.value,
                   \* the record set, if this load comes right after a save for
                   \* the same configuration that met no I/O failure
                   saved |-> IF /\ last.op = "save" /\ last.cache_key = cache_key
                                /\ last.enabled /\ enabled /\ ~last.failed
                             THEN <<last.file_data>> ELSE <<>>]
    /\ UNCHANGED <<base, fs, gitignore, store, clock, scanner, prior>>

NextCache ==
    \/ \E cfg \in UserConfigs, enabled \in BOOLEAN, file_data \in RecordSets,
          fault \in {"none", "open", "write"} : CacheSave(cfg, enabled, file_data, fault)
    \/ \E cfg \in UserConfigs, enabled \in BOOLEAN : CacheLoad(cfg, enabled)
    \/ invalidate
    \/ \E kind \in {"unreadable", "notjson", "scalar", "array"} : CorruptStore(kind)
    \/ \E key \in StoreKeys : CorruptEntry(key)
    \/ \E key \in StoreKeys, f \in Files, kind \in {"notobject", "lacking"} :
          CorruptRecord(key, f, kind)

SpecCache == Init /\ [][NextCache]_vars

(***************************************************************************)
(* The path filter called directly: _should_scan_file, _matches_pattern    *)
(***************************************************************************)
\* everything but the call in hand is as Init leaves it
InitRest ==
    /\ base = "dir"
    /\ fs = [f \in Files |->
                [exists |-> TRUE, readable |-> TRUE, mtime |-> 0,
                 text |-> IF f = UserPy THEN "user_model" ELSE "helper"]]
    /\ gitignore = [state |-> "absent", lines |-> <<>>]
    /\ store = [kind |-> "absent"]
    /\ clock = 0
    /\ scanner = NewInstance([include_patterns |-> <<>>, exclude_patterns |-> <<>>],
                              TRUE, "None", 50, FALSE, gitignore)
    /\ prior = NoCall
    /\ calls = 0

\* directory names of the matched paths
MatchDirs == {<<"tests">>, <<"a">>}

\* relative paths dir/.../dir/t.py of n directories
RECURSIVE PathsOfDepth(_)
PathsOfDepth(n) ==
    IF n = 0 THEN {<< <<"t", ".py">> >>}
    ELSE {<<d>> \o p : d \in MatchDirs, p \in PathsOfDepth(n - 1)}

MatchPaths == UNION {PathsOfDepth(n) : n \in 0..MaxDepth}

\* the pattern **/dir/**
RecursiveDir(dir) == <<"**", "/">> \o dir \o <<"/", "**">>

MatchIncludes ==
    { DefaultIncludePatterns,
      << <<"**", "/", "a", "/", "**", "/", "*", ".py">> >>,
      << <<"a", "/", "*", ".py">>, <<"tests", "/", "*">> >> }

MatchExcludes ==
    { <<>>,
      <<RecursiveDir(<<"tests">>)>>,
      <<RecursiveDir(<<"a">>), <<"*", ".py">>>>,
      DEFAULT_EXCLUDE_PATTERNS }

InitMatch ==
    /\ InitRest
    /\ \/ last \in [op : {"_should_scan_file"}, called : {FALSE}, done : {FALSE},
                     path : MatchPaths, include_patterns : MatchIncludes,
                     exclude_patterns : MatchExcludes]
       \/ last \in [op : {"_matches_pattern"}, called : {FALSE}, done : {FALSE},
                     path : MatchPaths, patterns : {<<RecursiveDir(d)>> : d \in MatchDirs}]

\* scanner._should_scan_file(path) on a scanner with the given pattern lists
ShouldScanFile ==
    /\ last.op = "_should_scan_file" /\ ~last.done
    /\ last' = [op |-> last.op, called |-> FALSE, done |-> TRUE, path |-> last.path,
                include_patterns |-> last.include_patterns,
                exclude_patterns |-> last.exclude_patterns,
                result |-> _should_scan_file(last.path, last.include_patterns,
                                             last.exclude_patterns)]
    /\ UNCHANGED <<base, fs, gitignore, store, clock, scanner, prior, calls>>

\* scanner._matches_pattern(path, patterns)
MatchesPattern ==
    /\ last.op = "_matches_pattern" /\ ~last.done
    /\ last' = [op |-> last.op, called |-> FALSE, done |-> TRUE, path |-> last.path,
                patterns |-> last.patterns,
                result |-> _matches_pattern(last.path, last.patterns)]
    /\ UNCHANGED <<base, fs, gitignore, store, clock, scanner, prior, calls>>

NextMatch == ShouldScanFile \/ MatchesPattern

SpecMatch == InitMatch /\ [][NextMatch]_vars

(***************************************************************************)
(* discover() on scanners with the worker pool, strict mode, user excludes *)
(* and an ignore file                                                      *)
(***************************************************************************)
ScanFiles == {UserPy, OldPy, TestsPy, RootInitPy, LinkPy}

\* a tree: the text each file holds, "" for a file that is not there
TreeOf(texts) ==
    [f \in ScanFiles |->
        [exists |-> texts[f] # "", readable |-> TRUE, mtime |-> 0,
         text |-> IF texts[f] # "" THEN texts[f] ELSE "helper"]]

ScanTrees ==
    { TreeOf([f \in ScanFiles |-> "user_model"]),
      TreeOf([f \in ScanFiles |-> IF f = TestsPy THEN "user_model" ELSE ""]),
      TreeOf([f \in ScanFiles |-> IF f = UserPy THEN "user_model" ELSE ""]),
      TreeOf([f \in ScanFiles |->
                 CASE f = UserPy -> "abstract_only"
                   [] f = OldPy -> "user_model"
                   [] f = TestsPy -> "abstract_only"
                   [] OTHER -> ""]) }

\* the ignore file: none, or the lines "legacy/" and "!tests/"
ScanIgnores ==
    { [state |-> "absent", lines |-> <<>>],
      [state |-> "present", lines |-> << <<"legacy", "/">>, <<"!", "tests", "/">> >>] }

\* the store a previous discover() of the same scanner has left, when it
\* classified f only
StoreAfter(sc, tree, f) ==
    save(TRUE, [kind |-> "absent"],
         _generate_cache_key(BasePath, sc.include_patterns, sc.exclude_patterns),
         Bind(EmptyMap, f,
              ScanRecord(tree[f].mtime, scan_file_worker(tree[f]).is_model,
                         _get_module_path(Inside(f), f))),
         "none").store

InitScan ==
    /\ base = "dir"
    /\ fs \in ScanTrees
    /\ gitignore \in ScanIgnores
    /\ clock = 0
    /\ \E cfg \in UserConfigs, cache_enabled \in BOOLEAN,
          parallel_enabled \in {"None", "True", "False"},
          parallel_threshold \in {1, 3}, strict_mode \in BOOLEAN :
          scanner = NewInstance(cfg, cache_enabled, parallel_enabled,
                                parallel_threshold, strict_mode, gitignore)
    /\ store \in {[kind |-> "absent"]}
                 \cup (IF scanner.cache_enabled /\ fs[UserPy].exists
                       THEN {StoreAfter(scanner, fs, UserPy)} ELSE {})
    /\ last = NoCall
    /\ prior = NoCall
    /\ calls = 0

\* the first discover() call on the scanner
FirstDiscover ==
    /\ calls = 0
    /\ Discover

NextScan == FirstDiscover

SpecScan == InitScan /\ [][NextScan]_vars

(***************************************************************************)
(* scan_file_worker on generated sources, and through discover()           *)
(***************************************************************************)
\* what a generated class statement is made of
ClassShapes ==
    [abstract : {"none", "true", "false"},
     base : {"none", "Helper", "Base", "AbstractBase", "db.Model", "declarative_base()",
             "SQLModel", "SQLModel(table=True)"},
     keyword : {"none", "table=True", "table=False"},
     decorator : {"none", "as_declarative"},
     body : {"none", "__tablename__", "__table__", "Column", "Mapped"}]

\* a source file: one generated class, then possibly a second class
\* ("concrete": class Post with __tablename__; "abstract": class Mixin with
\* __abstract__ = True) and possibly an imperative mapping call
SourceShapes ==
    [class : ClassShapes,
     second : {"none", "concrete", "abstract"},
     call : {"none", "map_imperatively", "reg.map_imperatively"}]

TableKeyword(value) == Keyword(<<"table">>, Constant(value))

ShapeBases(c) ==
    CASE c.base = "none" -> <<>>
      [] c.base = "Helper" -> <<Name(<<"Helper">>)>>
      [] c.base = "Base" -> <<Name(<<"Base">>)>>
      [] c.base = "AbstractBase" -> <<Name(<<"Abstract", "Base">>)>>
      [] c.base = "db.Model" -> <<Attribute(Name(<<"db">>), <<"Model">>)>>
      [] c.base = "declarative_base()" -> <<Call(Name(<<"declarative_base">>), <<>>, <<>>)>>
      [] c.base = "SQLModel" -> <<Name(<<"SQLModel">>)>>
      [] c.base = "SQLModel(table=True)" ->
            <<Call(Name(<<"SQLModel">>), <<>>, <<TableKeyword("True")>>)>>

ShapeKeywords(c) ==
    CASE c.keyword = "none" -> <<>>
      [] c.keyword = "table=True" -> <<TableKeyword("True")>>
      [] c.keyword = "table=False" -> <<TableKeyword("False")>>

ShapeBody(c) ==
    LET marker == CASE c.abstract = "none" -> <<>>
                    [] c.abstract = "true" -> <<AbstractAssign>>
                    [] c.abstract = "false" ->
                          <<Assign(<<Name(<<"__abstract__">>)>>, Constant("False"))>>
        evidence == CASE c.body = "none" -> <<>>
                      [] c.body = "__tablename__" -> <<TablenameAssign>>
                      [] c.body = "__table__" ->
                            <<Assign(<<Name(<<"__table__">>)>>, Name(<<"t">>))>>
                      [] c.body = "Column" ->
                            <<Assign(<<Name(<<"id">>)>>,
                                     Call(Name(<<"Column">>), <<Name(<<"Integer">>)>>, <<>>))>>
                      [] c.body = "Mapped" ->
                            <<AnnAssign(Name(<<"id">>),
                                        Subscript(Name(<<"Mapped">>), Name(<<"int">>)), <<>>)>>
    IN  IF marker \o evidence = <<>> THEN <<Pass>> ELSE marker \o evidence

ShapeClass(c) ==
    ClassDef(<<"Generated">>, ShapeBases(c), ShapeKeywords(c),
             IF c.decorator = "none" THEN <<>> ELSE <<Name(<<"as_declarative">>)>>,
             ShapeBody(c))

\* what ast.parse makes of the source
SourceTree(src) ==
    Module(<<ShapeClass(src.class)>>
           \o (CASE src.second = "none" -> <<>>
                 [] src.second = "concrete" ->
                       <<ClassDef(<<"Post">>, <<>>, <<>>, <<>>, <<TablenameAssign>>)>>
                 [] src.second = "abstract" ->
                       <<ClassDef(<<"Mixin">>, <<>>, <<>>, <<>>, <<AbstractAssign>>)>>)
           \o (CASE src.call = "none" -> <<>>
                 [] src.call = "map_imperatively" ->
                       <<Expr(Call(Name(<<"map_imperatively">>),
                                   <<Name(<<"User">>), Name(<<"table">>)>>, <<>>))>>
                 [] src.call = "reg.map_imperatively" ->
                       <<Expr(Call(Attribute(Name(<<"reg">>), <<"map_imperatively">>),
                                   <<Name(<<"User">>), Name(<<"table">>)>>, <<>>))>>))

InitClassify ==
    \/ /\ InitRest
       /\ last \in [op : {"scan_file_worker"}, called : {FALSE}, done : {FALSE},
                    source : SourceShapes]
    \/ InitScan

\* scan_file_worker(file_path) on a readable file holding the source
ScanFileWorker ==
    /\ last.op = "scan_file_worker" /\ ~last.done
    /\ last' = [op |-> last.op, called |-> FALSE, done |-> TRUE, source |-> last.source,
                result |-> scan_tree([ok |-> TRUE, tree |-> SourceTree(last.source)])]
    /\ UNCHANGED <<base, fs, gitignore, store, clock, scanner, prior, calls>>

\* the worker is called directly, or discover() is called on the scanner
NextClassify == ScanFileWorker \/ (last.op = "none" /\ FirstDiscover)

SpecClassify == InitClassify /\ [][NextClassify]_vars

(***************************************************************************)
(* _get_module_path called directly, and through discover()                *)
(***************************************************************************)
\* directories above the file
RECURSIVE DirsOfDepth(_)
DirsOfDepth(n) ==
    IF n = 0 THEN {<<>>}
    ELSE {<<d>> \o p : d \in {<<"app">>, <<"models">>}, p \in DirsOfDepth(n - 1)}

ModulePaths ==
    {dirs \o <<name>> :
        dirs \in UNION {DirsOfDepth(n) : n \in 0..MaxDepth},
        name \in {<<"user", ".py">>, <<"models", ".py">>, <<"__init__", ".py">>}}

InitModule ==
    \/ /\ InitRest
       /\ last \in [op : {"_get_module_path"}, called : {FALSE}, done : {FALSE},
                    inside : BOOLEAN, rel_path : ModulePaths]
    \/ InitScan

\* scanner._get_module_path(file_path)
GetModulePath ==
    /\ last.op = "_get_module_path" /\ ~last.done
    /\ last' = [op |-> last.op, called |-> FALSE, done |-> TRUE, inside |-> last.inside,
                rel_path |-> last.rel_path,
                result |-> _get_module_path(last.inside, last.rel_path)]
    /\ UNCHANGED <<base, fs, gitignore, store, clock, scanner, prior, calls>>

\* the method is called directly, or discover() is called on the scanner
NextModule == GetModulePath \/ (last.op = "none" /\ FirstDiscover)

SpecModule == InitModule /\ [][NextModule]_vars

(***************************************************************************)
(* import_models called on a list of modules                               *)
(***************************************************************************)
ImportNames == {<<"user">>, <<"old">>, <<"link">>}

\* the lists of distinct modules
ImportLists ==
    {ms \in UNION {[1..n -> ImportNames] : n \in 0..Cardinality(ImportNames)} :
        \A i, j \in 1..Len(ms) : i # j => ms[i] # ms[j]}

InitImport ==
    /\ InitRest
    /\ last \in [op : {"import_models"}, called : {FALSE}, done : {FALSE},
                 modules : ImportLists, import_module : [ImportNames -> ImportOutcomes]]

\* scanner.import_models(modules)
ImportModels ==
    /\ last.op = "import_models" /\ ~last.done
    /\ last' = [op |-> last.op, called |-> FALSE, done |-> TRUE, modules |-> last.modules,
                import_module |-> last.import_module,
                result |-> import_models(last.modules, last.import_module)]
    /\ UNCHANGED <<base, fs, gitignore, store, clock, scanner, prior, calls>>

NextImport == ImportModels

SpecImport == InitImport /\ [][NextImport]_vars

(***************************************************************************)
(* Configuration layer and the scan command                                *)
(*                                                                         *)
(* An optional value is a sequence: <<>> is None and <<v>> is the value v.  *)
(* A dictionary is a function on the keys it holds.                        *)
(***************************************************************************)
\* the parameters of load_config
LoadConfigParameters ==
    {"base_path", "include_patterns", "exclude_patterns", "log_level", "cache_enabled",
     "parallel_enabled", "parallel_threshold", "config_file"}

\* dict.update
Update(d, e) == [k \in DOMAIN d \cup DOMAIN e |-> IF k \in DOMAIN e THEN e[k] ELSE d[k]]

\* dict.get with a default
Get(d, k, default) == IF k \in DOMAIN d THEN d[k] ELSE default

\* str.upper on the level names that occur
Upper(s) == IF s = "info" THEN "INFO" ELSE s

\* Config.from_dict and Config.__init__: the attributes of the object
from_dict(data) ==
    [base_path |-> Get(data, "base_path", "."),
     include_patterns |-> LET p == Get(data, "include_patterns", <<>>)
                          IN  IF p = <<>> THEN DefaultIncludePatterns ELSE p,
     exclude_patterns |-> Get(data, "exclude_patterns", <<>>),
     log_level |-> Upper(Get(data, "log_level", "WARNING")),
     cache_enabled |-> Get(data, "cache_enabled", TRUE),
     parallel_enabled |-> Get(data, "parallel_enabled", "None"),
     parallel_threshold |-> Get(data, "parallel_threshold", 100)]

\* load_config called with the keyword arguments kwargs; named is the file
\* config_file names (EmptyMap when it does not exist), found the
\* .alembic-autoscan.yaml up the tree, toml the section of pyproject.toml
load_config(kwargs, named, found, toml) ==
    IF ~(DOMAIN kwargs \subseteq LoadConfigParameters)
    THEN [raised |-> TRUE, error |-> "TypeError"]
    ELSE LET arg(k) == Get(kwargs, k, <<>>)
             yaml == IF arg("config_file") # <<>> THEN named ELSE found
             files == Update(yaml, toml)
             given == {k \in LoadConfigParameters \ {"config_file"} : arg(k) # <<>>}
             config_data == Update(files, [k \in given |-> arg(k)[1]])
         IN  [raised |-> FALSE, error |-> "none", config |-> from_dict(config_data)]

\* the keyword arguments scan_command passes to load_config
ScanCommandArguments(args) ==
    [base_path |-> <<"dir">>,
     include_patterns |-> args.include,
     exclude_patterns |-> args.exclude,
     log_level |-> IF args.verbose THEN <<"DEBUG">> ELSE <<>>,
     cache_enabled |-> IF args.no_cache THEN <<FALSE>> ELSE <<>>,
     parallel_enabled |-> IF args.parallel THEN <<"True">> ELSE <<>>,
     strict_mode |-> IF args.strict THEN <<TRUE>> ELSE <<>>,
     config_file |-> args.config]

\* scan_command up to the construction of the scanner
scan_command(args, named, found, toml, ignore) ==
    LET resolved == load_config(ScanCommandArguments(args), named, found, toml)
    IN  IF resolved.raised
        THEN [raised |-> TRUE, error |-> resolved.error]
        ELSE IF "strict_mode" \notin DOMAIN resolved.config
        THEN [raised |-> TRUE, error |-> "AttributeError"]
        ELSE [raised |-> FALSE, error |-> "none", config |-> resolved.config,
              scanner |-> NewInstance(resolved.config, resolved.config.cache_enabled,
                                      resolved.config.parallel_enabled,
                                      resolved.config.parallel_threshold,
                                      resolved.config.strict_mode, ignore)]

\* the command lines
CommandLines ==
    [include : {<<>>, <<DefaultIncludePatterns>>},
     exclude : {<<>>, << << <<"**", "/", "legacy", "/", "**">> >> >>},
     verbose : BOOLEAN, no_cache : BOOLEAN, parallel : BOOLEAN, strict : BOOLEAN,
     config : {<<>>, <<"cfg.yaml">>}]

\* the contents of a configuration file
ConfigFiles ==
    {EmptyMap, [cache_enabled |-> FALSE], [parallel_threshold |-> 3, log_level |-> "info"]}

\* the keyword arguments of direct calls of load_config
DirectArguments ==
    {[base_path |-> <<"dir">>],
     [base_path |-> <<"dir">>, cache_enabled |-> <<FALSE>>, parallel_threshold |-> <<3>>],
     [base_path |-> <<"dir">>, parallel_threshold |-> <<3>>, strict_mode |-> <<TRUE>>]}

InitConfig ==
    /\ InitRest
    /\ \/ last \in [op : {"scan_command"}, called : {FALSE}, done : {FALSE},
                    args : CommandLines, named : ConfigFiles, found : ConfigFiles,
                    toml : ConfigFiles]
       \/ last \in [op : {"load_config"}, called : {FALSE}, done : {FALSE},
                    kwargs : DirectArguments, named : ConfigFiles, found : ConfigFiles,
                    toml : ConfigFiles]

\* the scan command run on a command line; when the configuration resolves
\* the scanner it constructs becomes the scanner at hand
ScanCommand ==
    /\ last.op = "scan_command" /\ ~last.done
    /\ \E r \in {scan_command(last.args, last.named, last.found, last.toml, gitignore)} :
          /\ last' = [op |-> last.op, called |-> FALSE, done |-> TRUE, args |-> last.args,
                      named |-> last.named, found |-> last.found, toml |-> last.toml,
                      result |-> r]
          /\ scanner' = IF r.raised THEN scanner ELSE r.scanner
    /\ UNCHANGED <<base, fs, gitignore, store, clock, prior, calls>>

\* load_config called directly
LoadConfig ==
    /\ last.op = "load_config" /\ ~last.done
    /\ last' = [op |-> last.op, called |-> FALSE, done |-> TRUE, kwargs |-> last.kwargs,
                named |-> last.named, found |-> last.found, toml |-> last.toml,
                result |-> load_config(last.kwargs, last.named, last.found, last.toml)]
    /\ UNCHANGED <<base, fs, gitignore, store, clock, scanner, prior, calls>>

NextConfig == ScanCommand \/ LoadConfig

SpecConfig == InitConfig /\ [][NextConfig]_vars

(***************************************************************************)
(* parse_gitignore called on ignore files                                  *)
(***************************************************************************)
\* the longest entry of an ignore file, in tokens
MaxEntry == 3

IgnoreTokens == {"/", "*", "!", "#", " ", "venv"}

IgnoreEntries == UNION {[1..n -> IgnoreTokens] : n \in 0..MaxEntry}

\* files of one line, of any entry, and files of two lines
IgnoreFiles ==
    {<<>>} \cup {<<e>> : e \in IgnoreEntries}
    \cup {<<d, e>> : d, e \in {<<>>, <<"#", "venv">>, <<"!", "venv">>, <<"venv">>,
                                <<"venv", "/">>, <<"/", "venv">>}}

InitIgnore ==
    /\ base = "dir"
    /\ fs = [f \in Files |->
                [exists |-> TRUE, readable |-> TRUE, mtime |-> 0,
                 text |-> IF f = UserPy THEN "user_model" ELSE "helper"]]
    /\ gitignore \in [state : {"absent", "unreadable", "present"}, lines : IgnoreFiles]
    /\ gitignore.state = "absent" => gitignore.lines = <<>>
    /\ store = [kind |-> "absent"]
    /\ clock = 0
    /\ scanner = NewInstance([include_patterns |-> <<>>, exclude_patterns |-> <<>>],
                              TRUE, "None", 50, FALSE, gitignore)
    /\ last = [op |-> "parse_gitignore", called |-> FALSE, done |-> FALSE]
    /\ prior = NoCall
    /\ calls = 0

\* parse_gitignore(base_path / ".gitignore")
ParseGitignore ==
    /\ last.op = "parse_gitignore" /\ ~last.done
    /\ last' = [op |-> last.op, called |-> FALSE, done |-> TRUE,
                result |-> parse_gitignore(gitignore)]
    /\ UNCHANGED <<base, fs, gitignore, store, clock, scanner, prior, calls>>

NextIgnore == ParseGitignore

SpecIgnore == InitIgnore /\ [][NextIgnore]_vars

(***************************************************************************)
(* discover() on a tree with an abstract base and a concrete subclass       *)
(***************************************************************************)
AbstractTexts == {"abstract_and_concrete", "helper"}

InitAbstract ==
    /\ base = "dir"
    /\ fs = [f \in Files |->
                [exists |-> TRUE, readable |-> TRUE, mtime |-> 0,
                 text |-> IF f = UserPy THEN "abstract_and_concrete" ELSE "helper"]]
    /\ gitignore = [state |-> "absent", lines |-> <<>>]
    /\ store = [kind |-> "absent"]
    /\ clock = 0
    /\ \E cfg \in UserConfigs, cache_enabled \in BOOLEAN,
          parallel_enabled \in {"None", "True"} :
          scanner = NewInstance(cfg, cache_enabled, parallel_enabled, 1, FALSE, gitignore)
    /\ last = NoCall
    /\ prior = NoCall
    /\ calls = 0

NextAbstract ==
    \/ Discover
    \/ \E cfg \in UserConfigs, cache_enabled \in BOOLEAN : NewScanner(cfg, cache_enabled)
    \/ \E f \in Files, text \in AbstractTexts : WriteFile(f, text)

SpecAbstract == InitAbstract /\ [][NextAbstract]_vars

(***************************************************************************)
(* Two discover() calls sharing one store file                             *)
(*                                                                         *)
(* Each call goes through the steps of discover() one at a time, so that   *)
(* the other call and a program rewriting files run in between:            *)
(*   "load"       enumerate, load the store, replay the unmodified files   *)
(*   "scan"       the workers read and classify the files to scan          *)
(*   "stat"       the results are collected, each file stat'd for its      *)
(*                record                                                   *)
(*   "save_read"  save() reads the document the store holds                *)
(*   "save_open"  save() opens the store for writing, which empties it     *)
(*   "save_dump"  save() writes its document and closes the file           *)
(* and ends "done" or "raised".  last.procs holds the calls, last.writer   *)
(* the call that wrote last, last.history what each file held at each of   *)
(* its modification times.                                                 *)
(***************************************************************************)
Procs == {1, 2}

RaceTexts == {"user_model", "helper"}

\* save up to its read of the store file: [raised, failed, all_caches]
save_read(st) ==
    IF st.kind = "absent" THEN [raised |-> FALSE, failed |-> FALSE, all_caches |-> EmptyMap]
    ELSE IF st.kind = "unreadable"
         THEN [raised |-> FALSE, failed |-> TRUE, all_caches |-> EmptyMap]
    ELSE IF st.kind = "object"
         THEN [raised |-> FALSE, failed |-> FALSE, all_caches |-> st.data]
    ELSE [raised |-> TRUE, failed |-> FALSE, all_caches |-> EmptyMap]

\* the document save() writes: what it read, with the entry of cache_key
\* bound to the records of file_data
WriteBack(all_caches, cache_key, file_data) ==
    [kind |-> "object",
     data |-> Bind(all_caches, cache_key,
                   [kind |-> "object",
                    recs |-> [f \in DOMAIN file_data |-> ToJson(file_data[f])]])]

\* a discover() call about to start on scanner sc
NewCall(sc) ==
    [pc |-> "load", sc |-> sc,
     cache_key |-> _generate_cache_key(BasePath, sc.include_patterns, sc.exclude_patterns),
     eligible |-> {}, cache_data |-> EmptyMap, served |-> {}, read |-> EmptyMap,
     results |-> EmptyMap, records |-> EmptyMap, image |-> EmptyMap,
     overwritten |-> FALSE, wrote |-> FALSE]

InitRace ==
    /\ base = "dir"
    /\ fs \in [Files -> [exists : {TRUE}, readable : {TRUE}, mtime : {0}, text : RaceTexts]]
    /\ gitignore = [state |-> "absent", lines |-> <<>>]
    /\ store = [kind |-> "absent"]
    /\ clock = 0
    /\ scanner = NewInstance([include_patterns |-> <<>>, exclude_patterns |-> <<>>],
                              TRUE, "None", 50, FALSE, gitignore)
    /\ \E cfg \in [Procs -> UserConfigs] :
          last = [op |-> "race", called |-> FALSE, writer |-> 0,
                  history |-> {<<f, 0, fs[f].text>> : f \in Files},
                  procs |-> [p \in Procs |->
                                NewCall(NewInstance(cfg[p], TRUE, "False", 50, FALSE,
                                                    gitignore))]]
    /\ prior = NoCall
    /\ calls = 0

\* call p moves to the state c
Becomes(p, c) == last' = [last EXCEPT !.procs[p] = c]

\* Steps 1 to 3: enumerate, load, replay
RaceLoad(p) ==
    LET c == last.procs[p]
        files_to_check == {f \in Enumerate :
                              _should_scan_file(f, c.sc.include_patterns,
                                                c.sc.exclude_patterns)}
        loaded == load(c.sc.cache_enabled, store, c.cache_key)
        cache_data == IF ~loaded.raised /\ loaded.value.hit THEN loaded.value.recs
                      ELSE EmptyMap
    IN  /\ last.op = "race" /\ c.pc = "load"
        /\ Becomes(p, IF loaded.raised THEN [c EXCEPT !.pc = "raised"]
                      ELSE [c EXCEPT !.pc = "scan",
                                     !.eligible = files_to_check,
                                     !.cache_data = cache_data,
                                     !.served = {f \in files_to_check \cap DOMAIN cache_data :
                                                    ~is_file_modified(fs[f], cache_data[f][1])}])
        /\ UNCHANGED <<base, fs, gitignore, store, clock, scanner, prior, calls>>

\* Step 4, the workers: each file to scan is read and classified
RaceScan(p) ==
    LET c == last.procs[p]
    IN  /\ last.op = "race" /\ c.pc = "scan"
        /\ Becomes(p, [c EXCEPT !.pc = "stat",
                                !.read = [f \in c.eligible \ c.served |-> fs[f].text],
                                !.results = [f \in c.eligible \ c.served |->
                                                scan_file_worker(fs[f]).is_model]])
        /\ UNCHANGED <<base, fs, gitignore, store, clock, scanner, prior, calls>>

\* Step 4, the collection: each classified file is stat'd for its record
RaceStat(p) ==
    LET c == last.procs[p]
    IN  /\ last.op = "race" /\ c.pc = "stat"
        /\ Becomes(p, [c EXCEPT !.pc = "save_read",
                                !.records =
                                    [f \in c.eligible |->
                                        IF f \in c.served THEN ReplayRecord(c.cache_data[f])
                                        ELSE ScanRecord(fs[f].mtime, c.results[f],
                                                        _get_module_path(Inside(f), f))]])
        /\ UNCHANGED <<base, fs, gitignore, store, clock, scanner, prior, calls>>

\* save(): the store file is read
RaceSaveRead(p) ==
    LET c == last.procs[p]
        r == save_read(store)
    IN  /\ last.op = "race" /\ c.pc = "save_read"
        /\ Becomes(p, IF r.raised THEN [c EXCEPT !.pc = "raised"]
                      ELSE IF r.failed THEN [c EXCEPT !.pc = "done"]
                      ELSE [c EXCEPT !.pc = "save_open", !.image = r.all_caches])
        /\ UNCHANGED <<base, fs, gitignore, store, clock, scanner, prior, calls>>

\* save(): open(cache_file, "w") empties the file
RaceSaveOpen(p) ==
    LET c == last.procs[p]
    IN  /\ last.op = "race" /\ c.pc = "save_open"
        /\ store' = [kind |-> "notjson"]
        /\ Becomes(p, [c EXCEPT !.pc = "save_dump"])
        /\ UNCHANGED <<base, fs, gitignore, clock, scanner, prior, calls>>

\* save(): json.dump and close.  The call writes from the start of the file;
\* when the other call has written since this one opened the file, what is
\* left is this call's document, or this call's document followed by the
\* end of the other's when that one is longer, which is no JSON document.
RaceSaveDump(p) ==
    LET c == last.procs[p]
        document == WriteBack(c.image, c.cache_key, c.records)
    IN  /\ last.op = "race" /\ c.pc = "save_dump"
        /\ store' \in {document} \cup (IF c.overwritten THEN {[kind |-> "notjson"]} ELSE {})
        /\ last' = [last EXCEPT
                       !.writer = p,
                       !.procs = [q \in Procs |->
                                     IF q = p THEN [c EXCEPT !.pc = "done", !.wrote = TRUE]
                                     ELSE IF last.procs[q].pc = "save_dump"
                                     THEN [last.procs[q] EXCEPT !.overwritten = TRUE]
                                     ELSE last.procs[q]]]
        /\ UNCHANGED <<base, fs, gitignore, clock, scanner, prior, calls>>

\* another program rewrites a file: its content and its modification time
\* change
Rewrite(f, text) ==
    /\ last.op = "race"
    /\ clock < MaxClock
    /\ fs[f].text # text
    /\ clock' = clock + 1
    /\ fs' = [fs EXCEPT ![f] = [exists |-> TRUE, readable |-> TRUE, mtime |-> clock',
                                text |-> text]]
    /\ last' = [last EXCEPT !.history = @ \cup {<<f, clock', text>>}]
    /\ UNCHANGED <<base, gitignore, store, scanner, prior, calls>>

NextRace ==
    \/ \E p \in Procs : RaceLoad(p)
    \/ \E p \in Procs : RaceScan(p)
    \/ \E p \in Procs : RaceStat(p)
    \/ \E p \in Procs : RaceSaveRead(p)
    \/ \E p \in Procs : RaceSaveOpen(p)
    \/ \E p \in Procs : RaceSaveDump(p)
    \/ \E f \in Files, text \in RaceTexts : Rewrite(f, text)

SpecRace == InitRace /\ [][NextRace]_vars

(***************************************************************************)
(* Scans with and without the cache on a tree that other programs change,  *)
(* every change of content moving the file's modification time             *)
(***************************************************************************)
InitTransparent ==
    /\ base = "dir"
    /\ fs \in [Files -> [exists : BOOLEAN, readable : {TRUE}, mtime : {0},
                         text : {"user_model", "helper"}]]
    /\ gitignore = [state |-> "absent", lines |-> <<>>]
    /\ store = [kind |-> "absent"]
    /\ clock = 0
    /\ \E cfg \in UserConfigs :
          scanner = NewInstance(cfg, TRUE, "None", 50, FALSE, gitignore)
    /\ last = NoCall
    /\ prior = NoCall
    /\ calls = 0

NextTransparent ==
    \/ Discover
    \/ \E cfg \in UserConfigs, cache_enabled \in BOOLEAN : NewScanner(cfg, cache_enabled)
    \/ \E f \in Files, text \in Texts : WriteFile(f, text)
    \/ \E f \in Files : DeleteFile(f)

SpecTransparent == InitTransparent /\ [][NextTransparent]_vars

(***************************************************************************)
(* Properties of discover()                                                *)
(*                                                                         *)
(* While last.called holds, fs is the tree the call worked on and store    *)
(* the store the call left: discover leaves the tree it saw in fs, and     *)
(* every other action that changes fs or store resets last.  In the record *)
(* of a call of a scanner with the cache disabled, store_before is the     *)
(* store the call found.                                                   *)
(***************************************************************************)
\* the list is in ascending order and holds no identifier twice
StrictlyAscending(list) ==
    \A i, j \in 1..Len(list) : i < j => StrLess(list[i], list[j])

\* the identifiers of the records that are models
ModelsOf(records) ==
    {records[f][3] : f \in {g \in DOMAIN records : records[g][2] /\ records[g][3] # NoModule}}

\* what the file's content is classified as when it is parsed now
ClassifiedNow(f) == scan_file_worker(fs[f]).is_model

\* C1: two consecutive discover() calls with the same configuration (cache
\* on or off, same or new scanner) and no change to the tree in between
\* return the same list, sorted ascending and without duplicates.
C1_Idempotent ==
    (last.called /\ last.repeats /\ last.before # <<>>) =>
        /\ last.outcome = "returned"
        /\ last.result = last.before[1]
        /\ StrictlyAscending(last.result)

\* C2: in every record discover() hands to the cache, module_path is
\* non-null exactly when is_model is true.
C2_ModulePathIffModel ==
    last.called =>
        \A f \in DOMAIN last.records :
            (last.records[f][3] # NoModule) <=> last.records[f][2]

\* C3: with the cache enabled, an eligible file with a stored record under
\* the current fingerprint is classified again exactly when it cannot be
\* stat'd or its mtime differs from the stored one; otherwise the stored
\* classification is replayed whatever the content is now, and a file that
\* is classified again is reported by its current content.
C3_StalenessByMtime ==
    (last.called /\ last.cache_enabled) =>
        \A f \in DOMAIN last.stored :
            /\ f \in last.scanned <=>
                   (~fs[f].exists \/ fs[f].mtime # last.stored[f][1])
            /\ (last.outcome = "returned" /\ f \notin last.scanned) =>
                   /\ last.records[f][1] = last.stored[f][1]
                   /\ last.records[f][2] = last.stored[f][2]
                   /\ _get_module_path(TRUE, f) \in Range(last.result) <=> last.stored[f][2]
            /\ (last.outcome = "returned" /\ f \in last.scanned) =>
                   /\ last.records[f][1] = fs[f].mtime
                   /\ last.records[f][2] = ClassifiedNow(f)
                   /\ _get_module_path(TRUE, f) \in Range(last.result) <=> ClassifiedNow(f)

\* C3's case: a file whose content changed under an unchanged mtime is
\* served from the cache with its old classification
C3_Witness ==
    /\ last.called /\ last.cache_enabled /\ last.outcome = "returned"
    /\ \E f \in DOMAIN last.stored :
          /\ f \notin last.scanned
          /\ ClassifiedNow(f) # last.stored[f][2]

\* C7: a discover() call with the cache enabled that finds a store file
\* with invalid content classifies every eligible file, returns, and
\* returns what a scan without the cache returns.
C7_CorruptStoreIsAMiss ==
    (/\ last.called /\ last.cache_enabled
     /\ last.store_kind \in {"notjson", "scalar", "array"}
     /\ last.vanished = {}) =>
        /\ last.outcome = "returned"
        /\ last.scanned = last.eligible
        /\ last.result = Sorted({_get_module_path(TRUE, f) :
                                    f \in {g \in last.eligible : ClassifiedNow(g)}})

\* C8: when writing the store fails, save() returns normally and
\* discover() returns the full result: the identifiers of all the eligible
\* files' records that are models, sorted.
C8_WriteFailureSwallowed ==
    (last.called /\ last.write_failed) =>
        /\ last.outcome = "returned"
        /\ DOMAIN last.records = last.eligible
        /\ last.result = Sorted(ModelsOf(last.records))

\* C8's case: the write failed and the call returned the models it found
C8_Witness ==
    /\ last.called /\ last.write_failed
    /\ last.base = "dir"
    /\ last.result # <<>>

\* C9: discover() on a base path that does not exist or is not a directory
\* raises instead of returning a list.  (__init__ looks at nothing on disk
\* but the ignore file, so a scanner built on the bad path is the scanner
\* built before the path went bad.)
C9_BadBasePathRaises ==
    (last.called /\ last.base # "dir") => last.outcome = "raised"

\* C10: with a sound store, a discover() call whose eligible files include
\* one that is malformed, unreadable or removed after enumeration returns,
\* and no such file it classified is in the result.
C10_FileFailuresRecovered ==
    LET failing == {f \in last.eligible :
                       \/ ~fs[f].exists
                       \/ ~fs[f].readable
                       \/ fs[f].text \in {"syntax_error", "undecodable"}}
    IN  (/\ last.called
         /\ last.store_kind \in {"absent", "object"}
         /\ failing # {}) =>
            /\ last.outcome = "returned"
            /\ \A f \in failing \cap last.scanned :
                   _get_module_path(TRUE, f) \notin Range(last.result)

(***************************************************************************)
(* Properties of ScanCache                                                 *)
(***************************************************************************)
\* what the store holds under a fingerprint
EntryOf(st, key) ==
    IF st.kind = "object" /\ key \in DOMAIN st.data THEN <<st.data[key]>> ELSE <<>>

KeysOf(st) == IF st.kind = "object" THEN DOMAIN st.data ELSE {}

\* C4: on an enabled cache, save(c, R) followed by load(c) returns a mapping
\* with exactly the paths of R and, for each path, the same
\* (mtime, is_model, module_path), null module_path included.
C4_RoundTrip ==
    (last.op = "load" /\ last.saved # <<>>) =>
        /\ ~last.raised
        /\ last.value.hit
        /\ last.value.recs = last.saved[1]

\* C5: a save for one configuration leaves every other fingerprint key of
\* the store with its previous contents, and a load for any other
\* configuration returns what it returned before.
C5_OtherKeysUntouched ==
    last.op = "save" =>
        \A key \in (KeysOf(last.before) \cup {CacheKeyOf(cfg) : cfg \in UserConfigs})
                       \ {last.cache_key} :
            /\ EntryOf(store, key) = EntryOf(last.before, key)
            /\ load(TRUE, store, key) = load(TRUE, last.before, key)

\* C6: load never raises, and returns the cache-miss value when the store
\* is absent, unreadable or not a JSON object.
C6_LoadNeverRaises ==
    last.op = "load" =>
        /\ ~last.raised
        /\ last.store_kind # "object" => last.value = Miss

(***************************************************************************)
(* Properties of the path filter                                           *)
(***************************************************************************)
\* the path matches the pattern, in one of the forms _matches_pattern tries
MatchesSome(path, patterns) ==
    \E i \in 1..Len(patterns) : MatchesOnePattern(path, patterns[i])

\* C11: _should_scan_file is true exactly when the path matches at least one
\* include pattern and no exclude pattern; a path matching both is not
\* scanned.
C11_EligibilityRule ==
    (last.op = "_should_scan_file" /\ last.done) =>
        /\ last.result <=> (/\ MatchesSome(last.path, last.include_patterns)
                            /\ ~MatchesSome(last.path, last.exclude_patterns))
        /\ (/\ MatchesSome(last.path, last.include_patterns)
            /\ MatchesSome(last.path, last.exclude_patterns)) => ~last.result

\* C11's case: a path that matches an include and an exclude pattern has
\* been decided
C11_Witness ==
    /\ last.op = "_should_scan_file" /\ last.done
    /\ MatchesSome(last.path, last.include_patterns)
    /\ MatchesSome(last.path, last.exclude_patterns)
    /\ ~last.result

\* C12: for a pattern **/dir/**, _matches_pattern is true of every relative
\* path with dir among its directories, however many directories come
\* before dir and between dir and the file name.
C12_DepthIndependent ==
    (last.op = "_matches_pattern" /\ last.done) =>
        \A d \in MatchDirs :
            (last.patterns = <<RecursiveDir(d)>> /\ d \in Range(DropLast(last.path, 1)))
                => last.result

(***************************************************************************)
(* Properties of discover(): excludes, dispatch and strict mode            *)
(***************************************************************************)
\* C13: the exclude list of every scanner holds every baseline pattern,
\* whatever user excludes and ignore-file lines it was built with, and a
\* returned discover() call never lists the module of tests/test_models.py;
\* on a tree that holds nothing else the result is the empty list.
C13_BaselineExcludes ==
    /\ \A i \in 1..Len(DEFAULT_EXCLUDE_PATTERNS) :
          DEFAULT_EXCLUDE_PATTERNS[i] \in Range(scanner.exclude_patterns)
    /\ (last.op = "discover" /\ last.outcome = "returned") =>
          /\ _get_module_path(TRUE, TestsPy) \notin Range(last.result)
          /\ (\A f \in DOMAIN fs \ {TestsPy} : ~fs[f].exists) => last.result = <<>>

\* a call that returned other modules on a tree whose tests/test_models.py
\* defines a model, by a scanner built with a user exclude and an ignore
\* file that asks for tests/ back
C13_Witness ==
    /\ last.op = "discover" /\ last.outcome = "returned"
    /\ TestsPy \in DOMAIN fs /\ fs[TestsPy].exists /\ ClassifiedNow(TestsPy)
    /\ gitignore.state = "present"
    /\ Len(scanner.exclude_patterns) > Len(DEFAULT_EXCLUDE_PATTERNS) + 1
    /\ last.result # <<>>
    /\ _get_module_path(TRUE, TestsPy) \notin Range(last.result)

(***************************************************************************)
(* Properties of scan_file_worker                                          *)
(***************************************************************************)
\* the generated class is a SQLModel class with table=True
ShapeSqlmodel(c) ==
    \/ c.base = "SQLModel(table=True)"
    \/ c.base = "SQLModel" /\ c.keyword = "table=True"

\* the generated class has a recognised base or decorator
ShapeModelBase(c) ==
    \/ ShapeSqlmodel(c)
    \/ c.decorator = "as_declarative"
    \/ c.base \in {"Base", "AbstractBase", "db.Model", "declarative_base()"}

\* the generated class is not abstract and defines __tablename__, or is a
\* SQLModel table, or has a recognised base together with table evidence
ShapeConcrete(c) ==
    /\ c.abstract # "true"
    /\ \/ c.body = "__tablename__"
       \/ ShapeSqlmodel(c)
       \/ ShapeModelBase(c) /\ c.body # "none"

Classified == last.op = "scan_file_worker" /\ last.done

\* C14: a source is classified a model exactly when it holds an imperative
\* mapping call or a class that is not abstract and defines __tablename__,
\* or is a SQLModel class with table=True, or has both a recognised base and
\* table evidence.  So __tablename__ or the SQLModel table marker is enough
\* whatever the bases are, and column fields under no recognised base and
\* without __tablename__ are not.
C14_ModelIff ==
    Classified =>
        (last.result.is_model <=>
            \/ last.source.call # "none"
            \/ last.source.second = "concrete"
            \/ ShapeConcrete(last.source.class))

\* a class with __tablename__ and an unrecognised base, alone in its file,
\* classified a model
C14_Witness ==
    /\ Classified
    /\ last.source.class.base = "Helper" /\ last.source.class.body = "__tablename__"
    /\ last.source.class.abstract = "none" /\ last.source.class.decorator = "none"
    /\ last.source.second = "none" /\ last.source.call = "none"
    /\ last.result.is_model

\* C15: a class whose body assigns __abstract__ = True is reported in the
\* abstract-class list and does not make its file a model, whatever else
\* it defines: the file is a model only through another class or an
\* imperative mapping call.  A file whose only class is abstract is not in
\* the list a discover() call returns.
C15_AbstractNeverModel ==
    /\ (Classified /\ last.source.class.abstract = "true") =>
          /\ <<"Generated">> \in Range(last.result.abstracts)
          /\ last.result.is_model =>
                (last.source.call # "none" \/ last.source.second = "concrete")
    /\ (last.op = "discover" /\ last.outcome = "returned") =>
          \A f \in DOMAIN fs :
              (fs[f].exists /\ fs[f].text = "abstract_only") =>
                  _get_module_path(Inside(f), f) \notin Range(last.result)

\* an abstract class under Base with __tablename__, alone in its file
C15_Witness ==
    /\ Classified
    /\ last.source.class.abstract = "true"
    /\ last.source.class.base = "Base" /\ last.source.class.body = "__tablename__"
    /\ last.source.second = "none" /\ last.source.call = "none"
    /\ ~last.result.is_model
    /\ last.result.abstracts = << <<"Generated">> >>

(***************************************************************************)
(* Properties of _get_module_path                                          *)
(***************************************************************************)
\* the segments of a *.py file's identifier: its directories, then its
\* name without the extension unless the file is __init__.py
SegmentsOf(rel_path) ==
    IF Last(rel_path) = <<"__init__", ".py">> THEN DropLast(rel_path, 1)
    ELSE DropLast(rel_path, 1) \o <<DropLast(Last(rel_path), 1)>>

\* one-token segments with a dot between each two
Dotted(segments) ==
    [i \in 1..(2 * Len(segments) - 1) |->
        IF i % 2 = 1 THEN segments[(i + 1) \div 2][1] ELSE "."]

\* the identifier the rule gives a file under base_path
IdentifierOf(rel_path) ==
    IF SegmentsOf(rel_path) = <<>> THEN NoModule ELSE Dotted(SegmentsOf(rel_path))

\* C16: a file under base_path gets the dotted path relative to base_path
\* without the .py extension, __init__.py gets the path of its package, and
\* a file outside base_path, or __init__.py at base_path itself, gets no
\* identifier; the list discover() returns holds nothing but identifiers
\* of eligible files that have one.
C16_ModuleIdentifier ==
    /\ (last.op = "_get_module_path" /\ last.done) =>
          last.result = IF last.inside THEN IdentifierOf(last.rel_path) ELSE NoModule
    /\ (last.op = "discover" /\ last.outcome = "returned") =>
          \A i \in 1..Len(last.result) :
              \E f \in last.eligible :
                  /\ Inside(f) /\ f # RootInitPy
                  /\ last.result[i] = IdentifierOf(f)

\* a call that classified __init__.py at the root and the link that leads
\* outside, both defining models, and returned app.models.user
C16_Witness ==
    /\ last.op = "discover" /\ last.outcome = "returned"
    /\ {RootInitPy, LinkPy, UserPy} \subseteq last.scanned
    /\ ClassifiedNow(RootInitPy) /\ ClassifiedNow(LinkPy)
    /\ <<"app", ".", "models", ".", "user">> \in Range(last.result)

(***************************************************************************)
(* Properties of the dispatch and of strict mode                           *)
(***************************************************************************)
\* the files of the call served from the cache
ServedFiles == last.eligible \ last.scanned

\* the record sequential classification of the tree writes for file f
SequentialRecord(f) ==
    LET results == SerialResults(EnumerationOrder(last.scanned), fs)
        i == CHOOSE k \in 1..Len(results) : results[k][1] = f
    IN  IF results[i][2] /\ Inside(f) /\ f # RootInitPy
        THEN <<fs[f].mtime, TRUE, IdentifierOf(f)>>
        ELSE <<fs[f].mtime, FALSE, IF Inside(f) THEN IdentifierOf(f) ELSE NoModule>>

\* the list sequential classification of the tree returns
SequentialResult ==
    Sorted({last.stored[f][3] :
               f \in {g \in ServedFiles : last.stored[g][2] /\ last.stored[g][3] # NoModule}}
           \cup {SequentialRecord(f)[3] : f \in {g \in last.scanned : SequentialRecord(g)[2]}})

\* the number of files needing classification
ScanCount == Cardinality(last.scanned)

\* the call got as far as classifying files
Dispatched == last.op = "discover" /\ last.error # "load" /\ last.scanned # {}

\* C17: when the pool classifies the files, in whatever order its workers
\* finish, a call that returns gives the list, and writes the cache
\* records, that sequential classification of the same tree gives.
C17_OrderIndependent ==
    (last.op = "discover" /\ last.mode = "parallel" /\ last.outcome = "returned") =>
        /\ last.result = SequentialResult
        /\ StrictlyAscending(last.result)
        /\ DOMAIN last.records = last.eligible
        /\ \A f \in last.scanned : last.records[f] = SequentialRecord(f)

\* a call whose pool finished the second file first and that returned two
\* modules or more
C17_Witness ==
    /\ last.op = "discover" /\ last.mode = "parallel" /\ last.outcome = "returned"
    /\ last.completion[1] # 1
    /\ Len(last.result) > 1

\* C18 as stated: the pool is used exactly when the number of files needing
\* classification meets or exceeds parallel_threshold or parallel mode is
\* forced.
C18_PoolIffThresholdOrForced ==
    Dispatched =>
        (last.pool <=> (\/ ScanCount >= scanner.parallel_threshold
                        \/ scanner.parallel_enabled = "True"))

\* C18 amended: the pool is used exactly when more than one file needs
\* classification and parallel mode is either forced on, or left unset
\* with the number of those files meeting or exceeding parallel_threshold;
\* otherwise (parallel mode forced off, a single file, or a count below the
\* threshold) the files are classified one by one in enumeration order.
C18_DispatchMode ==
    Dispatched =>
        /\ last.pool <=>
              /\ ScanCount > 1
              /\ \/ scanner.parallel_enabled = "True"
                 \/ /\ scanner.parallel_enabled = "None"
                    /\ ScanCount >= scanner.parallel_threshold
        /\ last.pool => last.mode \in {"parallel", "fallback"}
        /\ ~last.pool =>
              /\ last.mode = "serial"
              /\ last.results = EnumerationOrder(last.scanned)

\* a call of a scanner with parallel mode unset that met its threshold and
\* used the pool
C18_Witness ==
    /\ Dispatched
    /\ scanner.parallel_enabled = "None"
    /\ ScanCount >= scanner.parallel_threshold
    /\ last.pool /\ last.mode = "parallel"

C20_StrictModeSameResult ==
    (/\ last.op = "discover" /\ scanner.strict_mode
     /\ last.error \notin {"load", "pool", "stat", "save"}) =>
        /\ last.outcome = "returned"
        /\ last.attempted = last.result
        /\ last.result = SequentialResult

\* a strict-mode call whose first import raised and that returned two
\* modules or more
C20_Witness ==
    /\ last.op = "discover" /\ scanner.strict_mode /\ last.outcome = "returned"
    /\ Len(last.result) > 1
    /\ last.imports[last.result[1]] # "ok"
    /\ last.attempted = last.result

(***************************************************************************)
(* Properties of import_models                                             *)
(***************************************************************************)
\* C21: import_models does not raise whatever an import does, tries every
\* module of the list, and returns the number of modules whose import
\* succeeded.
C21_ImportFailuresSkipped ==
    (last.op = "import_models" /\ last.done) =>
        /\ ~last.result.raised
        /\ last.result.attempted = last.modules
        /\ last.result.imported_count =
              Cardinality({i \in 1..Len(last.modules) :
                              last.import_module[last.modules[i]] = "ok"})


\* C22: the scan command, with or without --strict, resolves its
\* configuration without error and constructs the scanner with the resolved
\* strict_mode; load_config accepts strict_mode and the Config exposes it
C22_StrictModeCarried ==
    /\ (last.op = "scan_command" /\ last.done) =>
          /\ ~last.result.raised
          /\ "strict_mode" \in DOMAIN last.result.config
          /\ last.result.scanner.strict_mode = last.result.config.strict_mode
          /\ last.args.strict => last.result.scanner.strict_mode
    /\ (last.op = "load_config" /\ last.done /\ "strict_mode" \in DOMAIN last.kwargs) =>
          /\ ~last.result.raised
          /\ "strict_mode" \in DOMAIN last.result.config
          /\ last.result.config.strict_mode = last.kwargs.strict_mode[1]


\* what the entry is, once stripped
BlankEntry(e) == Strip(e) = <<>>
CommentEntry(e) == Strip(e) # <<>> /\ Head(Strip(e)) = "#"
NegatedEntry(e) == Strip(e) # <<>> /\ Head(Strip(e)) = "!"
TrailingSlash(e) == Strip(e) # <<>> /\ Last(Strip(e)) = "/"
RootAnchored(e) == Strip(e) # <<>> /\ Head(Strip(e)) = "/"
PlainName(e) ==
    /\ Strip(e) # <<>>
    /\ \A i \in 1..Len(Strip(e)) : Strip(e)[i] \notin {"/", "*"}

\* the patterns pats are what the claim says the entry e yields
Translates(e, pats) ==
    IF BlankEntry(e) \/ CommentEntry(e) \/ NegatedEntry(e) THEN pats = <<>>
    ELSE /\ pats # <<>>
         /\ TrailingSlash(e) =>
               \A i \in 1..Len(pats) : EndsWith(pats[i], <<"/", "**">>)
         /\ RootAnchored(e) =>
               pats = <<Tail(Strip(e)) \o (IF TrailingSlash(e) THEN <<"**">> ELSE <<>>)>>
         /\ PlainName(e) =>
               pats = <<(<<"**", "/">> \o Strip(e) \o <<"/", "**">>), (<<"**", "/">> \o Strip(e))>>

\* C23: blank, comment and negated entries contribute nothing; an entry
\* with a trailing slash yields patterns ending in /**; a root-anchored
\* entry yields the entry without its leading slash; a plain name yields
\* **/name/** and **/name; an unreadable ignore file yields the empty list
C23_IgnoreTranslation ==
    (last.op = "parse_gitignore" /\ last.done) =>
        IF gitignore.state # "present" THEN last.result = <<>>
        ELSE \E cut \in [0..Len(gitignore.lines) -> 0..Len(last.result)] :
                /\ cut[0] = 0
                /\ cut[Len(gitignore.lines)] = Len(last.result)
                /\ \A i \in 1..Len(gitignore.lines) :
                      /\ cut[i - 1] <= cut[i]
                      /\ Translates(gitignore.lines[i],
                                    SubSeq(last.result, cut[i - 1] + 1, cut[i]))


AbstractHolders ==
    {f \in last.eligible :
        fs[f].exists /\ fs[f].readable /\ fs[f].text = "abstract_and_concrete"}

\* C25: after a discover() call on a tree with a file holding an abstract
\* base and a concrete subclass, classified in the call or served from the
\* cache, the tracking set holds the abstract class's name and the result
\* holds the module of the concrete model only
C25_AbstractTracked ==
    (/\ last.called /\ last.op = "discover" /\ last.outcome = "returned"
     /\ AbstractHolders # {}) =>
        /\ <<"Abstract", "Base">> \in scanner.abstract_classes
        /\ last.result = Sorted({_get_module_path(TRUE, f) : f \in AbstractHolders})


\* C26: when two discover() calls on one store interleave, the store at
\* the end is the document the call that wrote last had read, with that
\* call's records under its fingerprint
C26_LastWriterWins ==
    (/\ last.op = "race"
     /\ \A p \in Procs : last.procs[p].pc \in {"done", "raised"}
     /\ last.writer # 0) =>
        store = WriteBack(last.procs[last.writer].image,
                          last.procs[last.writer].cache_key,
                          last.procs[last.writer].records)

\* C28: in every record a discover() call builds, is_model is the
\* classification of the content the file held at the recorded mtime
C28_RecordMatchesContent ==
    last.op = "race" =>
        \A p \in Procs : \A f \in DOMAIN last.procs[p].records :
            \E h \in last.history :
                /\ h[1] = f
                /\ h[2] = last.procs[p].records[f][1]
                /\ last.procs[p].records[f][2] = scan_tree(Parse(h[3])).is_model

\* C29: under every interleaving of two discover() calls on one store
\* file neither call raises
C29_NoCallRaises ==
    last.op = "race" => \A p \in Procs : last.procs[p].pc # "raised"


\* C27: whatever store earlier scans have left and whatever files were
\* created, deleted or rewritten since, their modification time moving with
\* their content, a discover() call with the cache enabled returns the list
\* a call without the cache returns on the tree: the identifiers of the
\* eligible files whose content now holds a model, sorted
C27_CacheTransparent ==
    (/\ last.called /\ last.op = "discover" /\ last.cache_enabled
     /\ last.vanished = {}) =>
        /\ last.outcome = "returned"
        /\ last.result = Sorted({_get_module_path(TRUE, f) :
                                    f \in {g \in last.eligible : ClassifiedNow(g)}})


\* the store holds, under the fingerprint of the last call, one record for
\* each file eligible in that call and no other path
EntryIsEligibleFiles ==
    /\ store.kind = "object"
    /\ last.cache_key \in DOMAIN store.data
    /\ store.data[last.cache_key].kind = "object"
    /\ DOMAIN store.data[last.cache_key].recs = last.eligible
    /\ \A f \in last.eligible : store.data[last.cache_key].recs[f].kind = "record"

\* C30 as stated: after a discover() call with the cache enabled returns,
\* the entry under the current fingerprint holds exactly the eligible files
C30_EntryReplaced ==
    (/\ last.called /\ last.op = "discover" /\ last.cache_enabled
     /\ last.outcome = "returned") =>
        EntryIsEligibleFiles

\* C30, amended: after a discover() call with the cache enabled returns,
\* its write of the store not having failed, the entry under the current
\* fingerprint holds exactly one record for each eligible file and no other
\* path
C30_EntryReplacedWhenWritten ==
    (/\ last.called /\ last.op = "discover" /\ last.cache_enabled
     /\ last.outcome = "returned"
     /\ ~last.write_failed) =>
        EntryIsEligibleFiles

\* C30's case: the entry held a record of a file that is no longer
\* eligible, the call wrote the store, and the record is gone
C30_Witness ==
    /\ last.called /\ last.op = "discover" /\ last.cache_enabled
    /\ last.outcome = "returned" /\ ~last.write_failed
    /\ last.dropped # {}
    /\ last.eligible # {}
    /\ EntryIsEligibleFiles

====
